---- MODULE Spec2Model ----
(***************************************************************************)
(* A model of the pool_party slot-allocation pools (src/src): the three    *)
(* flag vectors (BoolVec, BitVec, HierarchicalBitVec), the generic         *)
(* FlagsBasedPool built on them, and the peer pools Simple, FreeList,      *)
(* Stacks and NotSafe, driven through the Pool trait of lib.rs.            *)
(*                                                                         *)
(* Conventions.  Rust vectors are TLA+ sequences, so index i of the source *)
(* is element i+1 here.  Option<usize>::None is None (-1); Option<T>::None *)
(* of a slot is NoItem (0); a null node pointer is NULL (0).  An operation *)
(* that can panic returns a record with a field fault; the state it        *)
(* carries is the state at the point of the panic.                         *)
(*                                                                         *)
(* The source packs flags in u32 (bit.rs) and u8 (stacks.rs, notsafe.rs)   *)
(* blocks.  The model keeps the block widths as the definitions            *)
(* BlockWidth and FlagBlockWidth and checks with narrow blocks, so that    *)
(* growth over several blocks and several hierarchy levels happens in      *)
(* small pools; every block operation is written for an arbitrary width.   *)
(***************************************************************************)
EXTENDS Integers, Sequences, FiniteSets, TLC

\* ------------------------------------------------------------------ bounds
\* Width in bits of bit.rs's Block (u32 in the source).
BlockWidth == 2
\* Width in bits of the Block / FlagBlock of stacks.rs and notsafe.rs (u8).
FlagBlockWidth == 2
\* Allocate is not taken when it would grow slot storage beyond MaxCap slots.
MaxCap == 4
\* with_capacity(n) is tried for n in 0..MaxInitCap.
MaxInitCap == 3
\* The fuzz loop stops allocating at this many live items (100_000 in the
\* source).
MaxFuzzItems == 2
\* The flag vectors driven on their own hold at most MaxBits bits.
MaxBits == 8
\* Item values handed to allocate and written through get_mut.
Items == {1, 2}

None == -1
NoItem == 0
NULL == 0

\* ------------------------------------------------------- machine integers
BITS_PER_BLOCK == BlockWidth
FLAGS_PER_BLOCK == FlagBlockWidth

\* Block::MAX for a block of w bits.
BlockMAX(w) == 2^w - 1

\* (b & (1 << i)) != 0
TestBit(b, i) == (b \div 2^i) % 2 = 1

\* The positions of the one bits of a w-bit block.
OneBits(b, w) == {i \in 0..(w-1) : TestBit(b, i)}

RECURSIVE FromBits(_)
FromBits(S) ==
    IF S = {} THEN 0
    ELSE LET i == CHOOSE x \in S : TRUE IN 2^i + FromBits(S \ {i})

\* b & !(1 << i)
ClearBit(b, i) == IF TestBit(b, i) THEN b - 2^i ELSE b

\* b | x for w-bit blocks
BitOr(b, x, w) == FromBits(OneBits(b, w) \cup OneBits(x, w))

\* b & x for w-bit blocks
BitAnd(b, x, w) == FromBits(OneBits(b, w) \cap OneBits(x, w))

\* x << i, truncated to w bits
Shl(x, i, w) == (x * 2^i) % 2^w

\* flags &= !(1 << i); flags |= value << i
AssignBit(b, i, value, w) == BitOr(ClearBit(b, i), Shl(IF value THEN 1 ELSE 0, i, w), w)

Min(S) == CHOOSE x \in S : \A y \in S : x <= y

\* u32::trailing_zeros / u8::trailing_zeros
trailing_zeros(b, w) == IF b = 0 THEN w ELSE Min(OneBits(b, w))

\* u8::trailing_ones
trailing_ones(b, w) == Min((0..w) \ OneBits(b, w))

\* u8::count_ones
count_ones(b, w) == Cardinality(OneBits(b, w))

\* Vec::resize(new_len, value) when new_len >= len
Resize(s, new_len, value) ==
    s \o [i \in 1..(new_len - Len(s)) |-> value]

\* (lo..hi).rev().collect()
RevRange(lo, hi) == [i \in 1..(hi - lo) |-> hi - i]

\* ------------------------------------------------------------- bool.rs
BoolVec_new == [flags |-> <<>>]

BoolVec_with_flags(num_flags, value) == [flags |-> [i \in 1..num_flags |-> value]]

BoolVec_num_flags(v) == Len(v.flags)

\* self.flags[flag]: an index out of range panics
BoolVec_index_ok(v, flag) == flag < Len(v.flags)

BoolVec_get_flag(v, flag) == v.flags[flag + 1]

BoolVec_set_flag(v, flag, value) == [v EXCEPT !.flags[flag + 1] = value]

BoolVec_add_flags(v, num_flags, value) ==
    [v EXCEPT !.flags = Resize(@, Len(@) + num_flags, value)]

\* Mutant: the position of the last true flag, not the first.
BoolVec_find_last_true_flag(v) ==
    LET T == {f \in 0..(Len(v.flags) - 1) : v.flags[f + 1] = TRUE}
    IN IF T = {} THEN None ELSE CHOOSE f \in T : \A g \in T : g <= f

BoolVec_find_a_true_flag(v) ==
    LET T == {f \in 0..(Len(v.flags) - 1) : v.flags[f + 1] = TRUE}
    IN IF T = {} THEN None ELSE Min(T)

\* Mutant: next() rewinds to flag 0 when it returns None.
RECURSIVE BoolVec_iter_next_rewinds(_, _)
BoolVec_iter_next_rewinds(v, curr_bit) ==
    IF curr_bit >= Len(v.flags) THEN [ret |-> None, curr_bit |-> 0]
    ELSE IF v.flags[curr_bit + 1] = TRUE
         THEN [ret |-> curr_bit, curr_bit |-> curr_bit + 1]
         ELSE BoolVec_iter_next_rewinds(v, curr_bit + 1)

\* TrueFlagsIterator::next from position curr_bit: [ret, curr_bit]
RECURSIVE BoolVec_iter_next(_, _)
BoolVec_iter_next(v, curr_bit) ==
    IF curr_bit >= Len(v.flags) THEN [ret |-> None, curr_bit |-> curr_bit]
    ELSE IF v.flags[curr_bit + 1] = TRUE
         THEN [ret |-> curr_bit, curr_bit |-> curr_bit + 1]
         ELSE BoolVec_iter_next(v, curr_bit + 1)

\* The sequence a fresh true_flags() iterator yields before its first None.
RECURSIVE BoolVec_drain(_, _)
BoolVec_drain(v, curr_bit) ==
    LET r == BoolVec_iter_next(v, curr_bit)
    IN IF r.ret = None THEN <<>> ELSE <<r.ret>> \o BoolVec_drain(v, r.curr_bit)

BoolVec_true_flags(v) == BoolVec_drain(v, 0)

\* -------------------------------------------------------------- bit.rs
BitVec_new == [flags |-> <<>>, num_bits |-> 0]

BitVec_with_bits(num_bits, value) ==
    IF num_bits = 0
    THEN [flags |-> <<>>, num_bits |-> num_bits]
    ELSE LET val == IF value THEN BlockMAX(BITS_PER_BLOCK) ELSE 0
             num_blocks == ((num_bits - 1) \div BITS_PER_BLOCK) + 1
         IN [flags |-> [i \in 1..num_blocks |-> val], num_bits |-> num_bits]

BitVec_num_blocks(bv) == Len(bv.flags)

\* Mutant: only the index of the block is asserted.
BitVec_bit_ok_block_only(bv, bit) == (bit \div BITS_PER_BLOCK) < Len(bv.flags)

\* The two assertions of get_bit, set_bit and
\* set_bit_and_all_bits_after_it_to_true.
BitVec_bit_ok(bv, bit) ==
    /\ bit < bv.num_bits
    /\ (bit \div BITS_PER_BLOCK) < Len(bv.flags)

BitVec_get_bit(bv, bit) ==
    TestBit(bv.flags[(bit \div BITS_PER_BLOCK) + 1], bit % BITS_PER_BLOCK)

BitVec_set_bit(bv, bit, value) ==
    [bv EXCEPT !.flags[(bit \div BITS_PER_BLOCK) + 1] =
        AssignBit(@, bit % BITS_PER_BLOCK, value, BITS_PER_BLOCK)]

BitVec_set_bit_and_all_bits_after_it_to_true(bv, bit) ==
    LET bit_idx == bit % BITS_PER_BLOCK
        flag_idx == bit \div BITS_PER_BLOCK
    IN [bv EXCEPT !.flags =
          [i \in 1..Len(bv.flags) |->
             IF i - 1 < flag_idx THEN bv.flags[i]
             ELSE IF i - 1 = flag_idx
                  THEN BitOr(bv.flags[i],
                             Shl(BlockMAX(BITS_PER_BLOCK), bit_idx, BITS_PER_BLOCK),
                             BITS_PER_BLOCK)
                  ELSE BlockMAX(BITS_PER_BLOCK)]]

\* The loop of add_bits over the free bits of the last block.
RECURSIVE BitVec_fill_last(_, _, _, _)
BitVec_fill_last(block, bit, end, value) ==
    IF bit >= end THEN block
    ELSE BitVec_fill_last(AssignBit(block, bit, value, BITS_PER_BLOCK), bit + 1, end, value)

\* Mutant: the free bits of the last block are not written; only new blocks
\* carry the value.
BitVec_add_bits_skips_tail(bv, num_bits_to_add, value_of_bits) ==
    IF num_bits_to_add = 0 THEN bv
    ELSE IF bv.num_bits = 0 THEN BitVec_with_bits(num_bits_to_add, value_of_bits)
    ELSE [flags |-> Resize(bv.flags,
                       ((bv.num_bits + num_bits_to_add - 1) \div BITS_PER_BLOCK) + 1,
                       IF value_of_bits THEN BlockMAX(BITS_PER_BLOCK) ELSE 0),
          num_bits |-> bv.num_bits + num_bits_to_add]

BitVec_add_bits(bv, num_bits_to_add, value_of_bits) ==
    LET new_num_bits == bv.num_bits + num_bits_to_add IN
    IF new_num_bits = 0 THEN bv
    ELSE IF num_bits_to_add = 0 THEN bv
    ELSE IF bv.num_bits = 0 THEN BitVec_with_bits(num_bits_to_add, value_of_bits)
    ELSE
      LET num_alloc_bits_in_last_flag == bv.num_bits - ((Len(bv.flags) - 1) * BITS_PER_BLOCK)
          num_free_bits_in_last_flag == BITS_PER_BLOCK - num_alloc_bits_in_last_flag
          num_bits_to_add_from_last_flag ==
              IF num_bits_to_add <= num_free_bits_in_last_flag
              THEN num_bits_to_add ELSE num_free_bits_in_last_flag
          len == Len(bv.flags) - 1
          filled == [bv.flags EXCEPT ![len + 1] =
                        BitVec_fill_last(@, num_alloc_bits_in_last_flag,
                            num_alloc_bits_in_last_flag + num_bits_to_add_from_last_flag,
                            value_of_bits)]
          grown ==
              IF num_bits_to_add > num_free_bits_in_last_flag
              THEN LET num_bits_to_add_from_new_flags == num_bits_to_add - num_free_bits_in_last_flag
                       num_new_flags == ((num_bits_to_add_from_new_flags - 1) \div BITS_PER_BLOCK) + 1
                       new_num_blocks == Len(filled) + num_new_flags
                       value_of_new_flags == IF value_of_bits THEN BlockMAX(BITS_PER_BLOCK) ELSE 0
                   IN Resize(filled, new_num_blocks, value_of_new_flags)
              ELSE filled
      IN [flags |-> grown, num_bits |-> new_num_bits]

\* get_block returns instead of panicking: self.flags[idx_of_block] is in
\* range, and on the last block with unallocated bits the two assertions on
\* idx_of_first_unalloc_bit hold.
BitVec_block_ok(bv, idx_of_block) ==
    \/ Len(bv.flags) = 0
    \/ /\ idx_of_block < Len(bv.flags)
       /\ (idx_of_block = Len(bv.flags) - 1 /\ bv.num_bits % BITS_PER_BLOCK # 0) =>
             /\ bv.num_bits - BITS_PER_BLOCK * (Len(bv.flags) - 1) >= 1
             /\ bv.num_bits - BITS_PER_BLOCK * (Len(bv.flags) - 1) < BITS_PER_BLOCK

\* The assertion that opens add_bits.
BitVec_add_bits_ok(bv) == Len(bv.flags) * BITS_PER_BLOCK >= bv.num_bits

\* Mutant: get_block returns the stored word as it is.
BitVec_get_block_unmasked(bv, idx_of_block) ==
    IF Len(bv.flags) = 0 THEN 0 ELSE bv.flags[idx_of_block + 1]

BitVec_get_block(bv, idx_of_block) ==
    IF Len(bv.flags) = 0 THEN 0
    ELSE IF idx_of_block = Len(bv.flags) - 1
    THEN LET there_are_unallocated_bits == bv.num_bits % BITS_PER_BLOCK # 0
             idx_of_first_unalloc_bit == bv.num_bits - BITS_PER_BLOCK * (Len(bv.flags) - 1)
             mask_out_unallocated_bits ==
                 IF there_are_unallocated_bits
                 THEN 2^idx_of_first_unalloc_bit - 1
                 ELSE BlockMAX(BITS_PER_BLOCK)
         IN BitAnd(bv.flags[idx_of_block + 1], mask_out_unallocated_bits, BITS_PER_BLOCK)
    ELSE bv.flags[idx_of_block + 1]

\* Mutant: the search takes the last non-zero block, not the first.
BitVec_find_in_last_block(bv) ==
    LET B == {b \in 0..(Len(bv.flags) - 1) : bv.flags[b + 1] # 0}
    IN IF B = {} THEN None
       ELSE LET block == CHOOSE b \in B : \A c \in B : c <= b
                local_bit == trailing_zeros(bv.flags[block + 1], BITS_PER_BLOCK)
            IN block * BITS_PER_BLOCK + local_bit

BitVec_find_a_true_bit(bv) ==
    LET B == {b \in 0..(Len(bv.flags) - 1) : bv.flags[b + 1] # 0}
    IN IF B = {} THEN None
       ELSE LET block == Min(B)
                local_bit == trailing_zeros(bv.flags[block + 1], BITS_PER_BLOCK)
            IN block * BITS_PER_BLOCK + local_bit

\* TrueBitsIterator::next from position bit: [ret, bit]
RECURSIVE BitVec_iter_next(_, _)
BitVec_iter_next(bv, bit) ==
    IF bit >= bv.num_bits THEN [ret |-> None, bit |-> bit]
    ELSE IF BitVec_get_bit(bv, bit) = FALSE
         THEN BitVec_iter_next(bv, bit + 1)
         ELSE [ret |-> bit, bit |-> bit + 1]

RECURSIVE BitVec_drain(_, _)
BitVec_drain(bv, bit) ==
    LET r == BitVec_iter_next(bv, bit)
    IN IF r.ret = None THEN <<>> ELSE <<r.ret>> \o BitVec_drain(bv, r.bit)

\* Mutant: a traversal starts where bit 0 has been passed already.
BitVec_true_bits_from_one(bv) == BitVec_drain(bv, 1)

BitVec_true_bits(bv) == BitVec_drain(bv, 0)

\* ------------------------------------------------------- hierarchical.rs
Hier_new == [levels |-> <<>>]

\* The loop of with_bits, from the level whose bits each stand for
\* num_bits_per_bit_at_level bits of level 0.
RECURSIVE Hier_build_levels(_, _, _)
Hier_build_levels(num_bits, value_of_bits, num_bits_per_bit_at_level) ==
    LET num_bits_needed_at_level == ((num_bits - 1) \div num_bits_per_bit_at_level) + 1
    IN <<BitVec_with_bits(num_bits_needed_at_level, value_of_bits)>> \o
       (IF num_bits_needed_at_level <= BITS_PER_BLOCK THEN <<>>
        ELSE Hier_build_levels(num_bits, value_of_bits,
                               num_bits_per_bit_at_level * BITS_PER_BLOCK))

Hier_with_bits(num_bits, value_of_bits) ==
    IF num_bits = 0 THEN [levels |-> <<>>]
    ELSE [levels |-> Hier_build_levels(num_bits, value_of_bits, 1)]

Hier_num_bits(h) == IF Len(h.levels) = 0 THEN 0 ELSE h.levels[1].num_bits

\* self.levels[0].get_bit(idx): the index into levels and get_bit's assertions
Hier_get_bit_ok(h, idx) == Len(h.levels) > 0 /\ BitVec_bit_ok(h.levels[1], idx)

Hier_get_bit(h, idx) == BitVec_get_bit(h.levels[1], idx)

\* Mutant: set_bit refreshes the parent bit at level 1 only.
Hier_set_parents_one_level(levels, level, idx_of_parent_bit) ==
    IF level >= Len(levels) \/ level > 1 THEN levels
    ELSE [levels EXCEPT ![level + 1] =
             BitVec_set_bit(@, idx_of_parent_bit,
                            BitVec_get_block(levels[level], idx_of_parent_bit) # 0)]

\* The while loop of set_bit.
RECURSIVE Hier_set_parents(_, _, _)
Hier_set_parents(levels, level, idx_of_parent_bit) ==
    IF level >= Len(levels) THEN levels
    ELSE LET children == BitVec_get_block(levels[level], idx_of_parent_bit)
             value_of_parent_bit == children # 0
         IN Hier_set_parents(
                [levels EXCEPT ![level + 1] =
                    BitVec_set_bit(@, idx_of_parent_bit, value_of_parent_bit)],
                level + 1, idx_of_parent_bit \div BITS_PER_BLOCK)

\* Mutant: the level-0 write stores the new bit alone in its word.
Hier_set_bit_alone_in_word(h, idx, value) ==
    [levels |-> Hier_set_parents(
                    [h.levels EXCEPT ![1].flags[(idx \div BITS_PER_BLOCK) + 1] =
                        Shl(IF value THEN 1 ELSE 0, idx % BITS_PER_BLOCK, BITS_PER_BLOCK)],
                    1, idx \div BITS_PER_BLOCK)]

Hier_set_bit(h, idx, value) ==
    [levels |-> Hier_set_parents(
                    [h.levels EXCEPT ![1] = BitVec_set_bit(@, idx, value)],
                    1, idx \div BITS_PER_BLOCK)]

\* Every index and assertion set_bit meets on its way up (none depends on
\* a bit value, and set_bit changes no length).
Hier_set_bit_ok(h, idx) ==
    /\ Len(h.levels) > 0
    /\ \A level \in 0..(Len(h.levels) - 1) :
          /\ BitVec_bit_ok(h.levels[level + 1], idx \div (BITS_PER_BLOCK^level))
          /\ level >= 1 =>
                BitVec_block_ok(h.levels[level], idx \div (BITS_PER_BLOCK^level))

\* Mutant: a level that must grow gets one bit more than it needs when the
\* bits to cover are a multiple of what one of its bits covers.
RECURSIVE Hier_grow_levels_overshoots(_, _, _, _, _, _)
Hier_grow_levels_overshoots(levels, level, num_bits_per_bit_at_level, num_bits_each_level_encompasses, num_bits, value) ==
    IF level >= Len(levels) THEN levels
    ELSE
      LET num_bits_level_can_encompass ==
              levels[level + 1].num_bits * num_bits_per_bit_at_level
                  - num_bits_each_level_encompasses
      IN IF num_bits_level_can_encompass >= num_bits THEN levels
         ELSE Hier_grow_levels_overshoots(
                  [levels EXCEPT ![level + 1] =
                      BitVec_add_bits(@,
                          ((num_bits - num_bits_level_can_encompass)
                              \div num_bits_per_bit_at_level) + 1, value)],
                  level + 1, num_bits_per_bit_at_level * BITS_PER_BLOCK,
                  num_bits_each_level_encompasses, num_bits, value)

\* First loop of add_bits: grows the levels that cannot cover the new bits.
\* num_bits_each_level_encompasses is level 0's bit count before the call.
RECURSIVE Hier_grow_levels(_, _, _, _, _, _)
Hier_grow_levels(levels, level, num_bits_per_bit_at_level, num_bits_each_level_encompasses, num_bits, value) ==
    IF level >= Len(levels) THEN levels
    ELSE
      LET num_bits_at_level == levels[level + 1].num_bits
          max_num_bits_level_can_encompass == num_bits_at_level * num_bits_per_bit_at_level
          num_bits_level_can_encompass ==
              max_num_bits_level_can_encompass - num_bits_each_level_encompasses
      IN IF num_bits_level_can_encompass >= num_bits THEN levels
         ELSE LET num_bits_to_encompass == num_bits - num_bits_level_can_encompass
                  num_bits_for_level ==
                      ((num_bits_to_encompass - 1) \div num_bits_per_bit_at_level) + 1
              IN Hier_grow_levels(
                     [levels EXCEPT ![level + 1] =
                         BitVec_add_bits(@, num_bits_for_level, value)],
                     level + 1, num_bits_per_bit_at_level * BITS_PER_BLOCK,
                     num_bits_each_level_encompasses, num_bits, value)

\* Mutant: the second loop starts at bit 0 of every level.
RECURSIVE Hier_mark_all_bits_true(_, _, _)
Hier_mark_all_bits_true(levels, level, idx_of_bit) ==
    IF level >= Len(levels) THEN levels
    ELSE Hier_mark_all_bits_true(
             [levels EXCEPT ![level + 1] =
                 BitVec_set_bit_and_all_bits_after_it_to_true(@, 0)],
             level + 1, idx_of_bit)

\* Second loop of add_bits (value == true).
RECURSIVE Hier_mark_new_bits_true(_, _, _)
Hier_mark_new_bits_true(levels, level, idx_of_bit) ==
    IF level >= Len(levels) THEN levels
    ELSE Hier_mark_new_bits_true(
             [levels EXCEPT ![level + 1] =
                 BitVec_set_bit_and_all_bits_after_it_to_true(@, idx_of_bit)],
             level + 1, idx_of_bit \div BITS_PER_BLOCK)

\* The for loop that fills a new top level from the blocks of the level below.
RECURSIVE Hier_fill_new_level(_, _, _, _)
Hier_fill_new_level(new_level, below, idx_of_parent_bit, num_bits_needed_to_fit_items) ==
    IF idx_of_parent_bit >= num_bits_needed_to_fit_items THEN new_level
    ELSE Hier_fill_new_level(
             BitVec_set_bit(new_level, idx_of_parent_bit,
                            BitVec_get_block(below, idx_of_parent_bit) # 0),
             below, idx_of_parent_bit + 1, num_bits_needed_to_fit_items)

\* Mutant: add_bits pushes a single new top level.
Hier_push_one_top_level(levels, num_bits_per_bit_at_level, new_num_bits, value) ==
    LET num_bits_needed_to_fit_items == ((new_num_bits - 1) \div num_bits_per_bit_at_level) + 1
    IN Append(levels, Hier_fill_new_level(
                          BitVec_with_bits(num_bits_needed_to_fit_items, value),
                          levels[Len(levels)], 0, num_bits_needed_to_fit_items))

\* Third loop of add_bits: pushes top levels until one fits in a block.
RECURSIVE Hier_push_top_levels(_, _, _, _)
Hier_push_top_levels(levels, num_bits_per_bit_at_level, new_num_bits, value) ==
    LET num_bits_needed_to_fit_items == ((new_num_bits - 1) \div num_bits_per_bit_at_level) + 1
        new_level == Hier_fill_new_level(
                         BitVec_with_bits(num_bits_needed_to_fit_items, value),
                         levels[Len(levels)], 0, num_bits_needed_to_fit_items)
        pushed == Append(levels, new_level)
    IN IF num_bits_needed_to_fit_items <= BITS_PER_BLOCK THEN pushed
       ELSE Hier_push_top_levels(pushed, num_bits_per_bit_at_level * BITS_PER_BLOCK,
                                 new_num_bits, value)

\* Mutant: add_bits extends the existing levels and never pushes a new one.
Hier_add_bits_keeps_levels(h, num_bits, value) ==
    IF num_bits = 0 THEN h
    ELSE IF Len(h.levels) = 0 THEN Hier_with_bits(num_bits, value)
    ELSE
      LET grown == Hier_grow_levels(h.levels, 0, 1, h.levels[1].num_bits, num_bits, value)
      IN [levels |-> IF value = TRUE
                     THEN Hier_mark_new_bits_true(grown, 0, h.levels[1].num_bits)
                     ELSE grown]

Hier_add_bits(h, num_bits, value) ==
    IF num_bits = 0 THEN h
    ELSE IF Len(h.levels) = 0 THEN Hier_with_bits(num_bits, value)
    ELSE
      LET new_num_bits == h.levels[1].num_bits + num_bits
          idx_of_first_new_bit_at_level_0 == h.levels[1].num_bits
          grown == Hier_grow_levels(h.levels, 0, 1, h.levels[1].num_bits, num_bits, value)
          marked == IF value = TRUE
                    THEN Hier_mark_new_bits_true(grown, 0, idx_of_first_new_bit_at_level_0)
                    ELSE grown
          topped == IF BitVec_num_blocks(marked[Len(marked)]) > 1
                    THEN Hier_push_top_levels(marked, BITS_PER_BLOCK^Len(marked),
                                              new_num_bits, value)
                    ELSE marked
      IN [levels |-> topped]

\* The assertions of the first loop of add_bits (lines 94 and 103).
RECURSIVE Hier_grow_levels_ok(_, _, _, _, _, _)
Hier_grow_levels_ok(levels, level, num_bits_per_bit_at_level, num_bits_each_level_encompasses, num_bits, value) ==
    IF level >= Len(levels) THEN TRUE
    ELSE
      LET num_bits_at_level == levels[level + 1].num_bits
          max_num_bits_level_can_encompass == num_bits_at_level * num_bits_per_bit_at_level
          num_bits_level_can_encompass ==
              max_num_bits_level_can_encompass - num_bits_each_level_encompasses
          num_bits_for_level ==
              ((num_bits - num_bits_level_can_encompass - 1) \div num_bits_per_bit_at_level) + 1
      IN IF ~(num_bits_each_level_encompasses <= max_num_bits_level_can_encompass) THEN FALSE
         ELSE IF num_bits_level_can_encompass >= num_bits THEN TRUE
         ELSE /\ (num_bits_at_level + num_bits_for_level) * num_bits_per_bit_at_level
                    >= num_bits_each_level_encompasses + num_bits
              /\ Hier_grow_levels_ok(
                     [levels EXCEPT ![level + 1] =
                         BitVec_add_bits(@, num_bits_for_level, value)],
                     level + 1, num_bits_per_bit_at_level * BITS_PER_BLOCK,
                     num_bits_each_level_encompasses, num_bits, value)

\* The assertions of set_bit_and_all_bits_after_it_to_true in the second
\* loop of add_bits.
Hier_mark_new_bits_true_ok(levels, idx_of_bit) ==
    \A level \in 0..(Len(levels) - 1) :
        BitVec_bit_ok(levels[level + 1], idx_of_bit \div (BITS_PER_BLOCK^level))

\* The indexing and assertions of the third loop of add_bits.
RECURSIVE Hier_push_top_levels_ok(_, _, _, _)
Hier_push_top_levels_ok(levels, num_bits_per_bit_at_level, new_num_bits, value) ==
    LET num_bits_needed_to_fit_items == ((new_num_bits - 1) \div num_bits_per_bit_at_level) + 1
        below == levels[Len(levels)]
    IN /\ num_bits_needed_to_fit_items > 0
       /\ \A idx_of_parent_bit \in 0..(num_bits_needed_to_fit_items - 1) :
             BitVec_block_ok(below, idx_of_parent_bit)
       /\ \/ num_bits_needed_to_fit_items <= BITS_PER_BLOCK
          \/ Hier_push_top_levels_ok(
                 Append(levels, Hier_fill_new_level(
                            BitVec_with_bits(num_bits_needed_to_fit_items, value),
                            below, 0, num_bits_needed_to_fit_items)),
                 num_bits_per_bit_at_level * BITS_PER_BLOCK, new_num_bits, value)

\* add_bits returns instead of panicking: every assertion and index it
\* meets, in the order of the three loops, and the final assertion.
Hier_add_bits_ok(h, num_bits, value) ==
    IF num_bits = 0 \/ Len(h.levels) = 0 THEN TRUE
    ELSE IF ~Hier_grow_levels_ok(h.levels, 0, 1, h.levels[1].num_bits, num_bits, value)
    THEN FALSE
    ELSE IF value = TRUE
            /\ ~Hier_mark_new_bits_true_ok(
                    Hier_grow_levels(h.levels, 0, 1, h.levels[1].num_bits, num_bits, value),
                    h.levels[1].num_bits)
    THEN FALSE
    ELSE IF BitVec_num_blocks(
                Hier_grow_levels(h.levels, 0, 1, h.levels[1].num_bits, num_bits, value)
                    [Len(h.levels)]) > 1
            /\ ~Hier_push_top_levels_ok(
                    IF value = TRUE
                    THEN Hier_mark_new_bits_true(
                             Hier_grow_levels(h.levels, 0, 1, h.levels[1].num_bits, num_bits, value),
                             0, h.levels[1].num_bits)
                    ELSE Hier_grow_levels(h.levels, 0, 1, h.levels[1].num_bits, num_bits, value),
                    BITS_PER_BLOCK^Len(h.levels), h.levels[1].num_bits + num_bits, value)
    THEN FALSE
    ELSE BitVec_num_blocks(
             Hier_add_bits(h, num_bits, value).levels[
                 Len(Hier_add_bits(h, num_bits, value).levels)]) = 1

\* find_a_true_bit returns instead of panicking: the assertion on the top
\* level.  (A zero block met on the way down gives an index, not a panic.)
Hier_find_a_true_bit_ok(h) ==
    Len(h.levels) = 0 \/ Len(h.levels[Len(h.levels)].flags) = 1

\* The final assertion of add_bits, and the one in find_a_true_bit.
Hier_top_is_one_block(h) ==
    Len(h.levels) > 0 => BitVec_num_blocks(h.levels[Len(h.levels)]) = 1

\* The descent loop of find_a_true_bit.
RECURSIVE Hier_descend(_, _, _)
Hier_descend(levels, level, idx_of_parent_bit) ==
    IF level <= 0 THEN idx_of_parent_bit
    ELSE Hier_descend(levels, level - 1,
             idx_of_parent_bit * BITS_PER_BLOCK +
             trailing_zeros(BitVec_get_block(levels[level], idx_of_parent_bit),
                            BITS_PER_BLOCK))

\* The get_block calls of the descent loop return instead of panicking.
RECURSIVE Hier_descend_ok(_, _, _)
Hier_descend_ok(levels, level, idx_of_parent_bit) ==
    IF level <= 0 THEN TRUE
    ELSE /\ BitVec_block_ok(levels[level], idx_of_parent_bit)
         /\ Hier_descend_ok(levels, level - 1,
                idx_of_parent_bit * BITS_PER_BLOCK +
                trailing_zeros(BitVec_get_block(levels[level], idx_of_parent_bit),
                               BITS_PER_BLOCK))

\* Mutant: the descent starts from the highest set bit of the top block.
Hier_find_from_highest_top_bit(h) ==
    IF Len(h.levels) = 0 THEN None
    ELSE LET top == BitVec_get_block(h.levels[Len(h.levels)], 0)
         IN IF top = 0 THEN None
            ELSE Hier_descend(h.levels, Len(h.levels) - 1,
                     CHOOSE b \in OneBits(top, BITS_PER_BLOCK) :
                         \A c \in OneBits(top, BITS_PER_BLOCK) : c <= b)

Hier_find_a_true_bit(h) ==
    IF Len(h.levels) = 0 THEN None
    ELSE LET top_level == h.levels[Len(h.levels)]
         IN IF BitVec_get_block(top_level, 0) = 0 THEN None
            ELSE Hier_descend(h.levels, Len(h.levels) - 1,
                     trailing_zeros(BitVec_get_block(top_level, 0), BITS_PER_BLOCK))

\* TrueBitsIterator::new.  The stack grows at its end, like the Vec.
Hier_iter_new(h) ==
    [stack |-> IF Len(h.levels) > 0 /\ BitVec_get_block(h.levels[Len(h.levels)], 0) # 0
               THEN <<<<Len(h.levels) - 1, 0>>>> ELSE <<>>,
     flags |-> 0,
     base_global_idx_of_flags |-> 0]

\* Mutant: the children are pushed in ascending bit order (no rev()).
RECURSIVE Hier_push_children_forward(_, _, _, _, _)
Hier_push_children_forward(stack, flags, level, base_idx, bit) ==
    IF bit < 0 THEN stack
    ELSE LET lower == Hier_push_children_forward(stack, flags, level, base_idx, bit - 1)
         IN IF TestBit(flags, bit) THEN Append(lower, <<level - 1, base_idx + bit>>)
            ELSE lower

\* for bit in (0..BITS_PER_BLOCK).rev(): push the children of the one bits
RECURSIVE Hier_push_children(_, _, _, _, _)
Hier_push_children(stack, flags, level, base_idx, bit) ==
    IF bit < 0 THEN stack
    ELSE Hier_push_children(
             IF TestBit(flags, bit) THEN Append(stack, <<level - 1, base_idx + bit>>)
             ELSE stack,
             flags, level, base_idx, bit - 1)

\* The while loop of TrueBitsIterator::next: [it, fault]
RECURSIVE Hier_iter_refill(_, _)
Hier_iter_refill(levels, it) ==
    IF Len(it.stack) = 0 THEN [it |-> it, fault |-> FALSE]
    ELSE
      LET top == it.stack[Len(it.stack)]
          level == top[1]
          idx_of_flags == top[2]
          popped == SubSeq(it.stack, 1, Len(it.stack) - 1)
      IN IF ~BitVec_block_ok(levels[level + 1], idx_of_flags)
         THEN [it |-> [it EXCEPT !.stack = popped], fault |-> TRUE]
         ELSE IF level = 0
         THEN [it |-> [stack |-> popped,
                       flags |-> BitVec_get_block(levels[1], idx_of_flags),
                       base_global_idx_of_flags |-> idx_of_flags * BITS_PER_BLOCK],
               fault |-> FALSE]
         ELSE LET flags == BitVec_get_block(levels[level + 1], idx_of_flags)
              IN IF flags = 0
                 THEN [it |-> [it EXCEPT !.stack = popped], fault |-> TRUE]
                 ELSE Hier_iter_refill(levels,
                          [it EXCEPT !.stack =
                              Hier_push_children(popped, flags, level,
                                  idx_of_flags * BITS_PER_BLOCK, BITS_PER_BLOCK - 1)])

\* Mutant: next drops the rest of the word after yielding its lowest bit.
Hier_iter_next_first_of_word(levels, it) ==
    IF it.flags = 0 /\ Len(it.stack) = 0
    THEN [ret |-> None, it |-> it, fault |-> FALSE]
    ELSE LET r == IF it.flags = 0 THEN Hier_iter_refill(levels, it)
                  ELSE [it |-> it, fault |-> FALSE]
         IN IF r.fault \/ r.it.flags = 0
            THEN [ret |-> None, it |-> r.it, fault |-> TRUE]
            ELSE [ret |-> r.it.base_global_idx_of_flags
                             + trailing_zeros(r.it.flags, BITS_PER_BLOCK),
                  it |-> [r.it EXCEPT !.flags = 0],
                  fault |-> FALSE]

\* TrueBitsIterator::next: [ret, it, fault]
Hier_iter_next(levels, it) ==
    IF it.flags = 0 /\ Len(it.stack) = 0
    THEN [ret |-> None, it |-> it, fault |-> FALSE]
    ELSE LET r == IF it.flags = 0 THEN Hier_iter_refill(levels, it)
                  ELSE [it |-> it, fault |-> FALSE]
         IN IF r.fault \/ r.it.flags = 0
            THEN [ret |-> None, it |-> r.it, fault |-> TRUE]
            ELSE LET flags_idx_of_next_true_bit == trailing_zeros(r.it.flags, BITS_PER_BLOCK)
                 IN [ret |-> r.it.base_global_idx_of_flags + flags_idx_of_next_true_bit,
                     it |-> [r.it EXCEPT !.flags = ClearBit(@, flags_idx_of_next_true_bit)],
                     fault |-> FALSE]

\* What a true_bits() iterator yields until its first None or its panic:
\* [ids, fault]
RECURSIVE Hier_drain(_, _)
Hier_drain(levels, it) ==
    LET r == Hier_iter_next(levels, it)
    IN IF r.fault THEN [ids |-> <<>>, fault |-> TRUE]
       ELSE IF r.ret = None THEN [ids |-> <<>>, fault |-> FALSE]
       ELSE LET rest == Hier_drain(levels, r.it)
            IN [ids |-> <<r.ret>> \o rest.ids, fault |-> rest.fault]

Hier_true_bits(h) == Hier_drain(h.levels, Hier_iter_new(h))

\* The (level, word) pairs the while loop of next pops, and so reads with
\* get_block, when it starts from iterator state it.
RECURSIVE Hier_refill_visits(_, _)
Hier_refill_visits(levels, it) ==
    IF Len(it.stack) = 0 THEN {}
    ELSE
      LET top == it.stack[Len(it.stack)]
          popped == SubSeq(it.stack, 1, Len(it.stack) - 1)
      IN IF ~BitVec_block_ok(levels[top[1] + 1], top[2]) \/ top[1] = 0
            \/ BitVec_get_block(levels[top[1] + 1], top[2]) = 0
         THEN {top}
         ELSE {top} \cup Hier_refill_visits(levels,
                  [it EXCEPT !.stack =
                      Hier_push_children(popped,
                          BitVec_get_block(levels[top[1] + 1], top[2]), top[1],
                          top[2] * BITS_PER_BLOCK, BITS_PER_BLOCK - 1)])

\* The (level, word) pairs an iterator reads until its first None or panic.
RECURSIVE Hier_visits(_, _)
Hier_visits(levels, it) ==
    LET r == Hier_iter_next(levels, it)
        here == IF it.flags = 0 THEN Hier_refill_visits(levels, it) ELSE {}
    IN IF r.fault \/ r.ret = None THEN here
       ELSE here \cup Hier_visits(levels, r.it)

\* ---------------------------------------- flag_based/mod.rs: trait FlagVec
\* The three implementations of FlagVec, selected by U.
FlagVec_new(U) ==
    CASE U = "BoolVec" -> BoolVec_new
      [] U = "BitVec" -> BitVec_new
      [] U = "HierarchicalBitVec" -> Hier_new

FlagVec_with_flags(U, num_flags, value) ==
    CASE U = "BoolVec" -> BoolVec_with_flags(num_flags, value)
      [] U = "BitVec" -> BitVec_with_bits(num_flags, value)
      [] U = "HierarchicalBitVec" -> Hier_with_bits(num_flags, value)

FlagVec_num_flags(U, f) ==
    CASE U = "BoolVec" -> BoolVec_num_flags(f)
      [] U = "BitVec" -> f.num_bits
      [] U = "HierarchicalBitVec" -> Hier_num_bits(f)

\* get_flag(flag) returns instead of panicking
FlagVec_get_ok(U, f, flag) ==
    CASE U = "BoolVec" -> BoolVec_index_ok(f, flag)
      [] U = "BitVec" -> BitVec_bit_ok(f, flag)
      [] U = "HierarchicalBitVec" -> Hier_get_bit_ok(f, flag)

FlagVec_get_flag(U, f, flag) ==
    CASE U = "BoolVec" -> BoolVec_get_flag(f, flag)
      [] U = "BitVec" -> BitVec_get_bit(f, flag)
      [] U = "HierarchicalBitVec" -> Hier_get_bit(f, flag)

\* set_flag(flag, _) returns instead of panicking
FlagVec_set_ok(U, f, flag) ==
    CASE U = "BoolVec" -> BoolVec_index_ok(f, flag)
      [] U = "BitVec" -> BitVec_bit_ok(f, flag)
      [] U = "HierarchicalBitVec" -> Hier_set_bit_ok(f, flag)

FlagVec_set_flag(U, f, flag, value) ==
    CASE U = "BoolVec" -> BoolVec_set_flag(f, flag, value)
      [] U = "BitVec" -> BitVec_set_bit(f, flag, value)
      [] U = "HierarchicalBitVec" -> Hier_set_bit(f, flag, value)

FlagVec_add_flags(U, f, num_flags, value) ==
    CASE U = "BoolVec" -> BoolVec_add_flags(f, num_flags, value)
      [] U = "BitVec" -> BitVec_add_bits(f, num_flags, value)
      [] U = "HierarchicalBitVec" -> Hier_add_bits(f, num_flags, value)

FlagVec_find_a_true_flag(U, f) ==
    CASE U = "BoolVec" -> BoolVec_find_a_true_flag(f)
      [] U = "BitVec" -> BitVec_find_a_true_bit(f)
      [] U = "HierarchicalBitVec" -> Hier_find_a_true_bit(f)

\* add_flags(num_flags, value) returns instead of panicking
FlagVec_add_ok(U, f, num_flags, value) ==
    CASE U = "BoolVec" -> TRUE
      [] U = "BitVec" -> BitVec_add_bits_ok(f)
      [] U = "HierarchicalBitVec" ->
            /\ \A level \in 1..Len(f.levels) : BitVec_add_bits_ok(f.levels[level])
            /\ Hier_add_bits_ok(f, num_flags, value)

\* find_a_true_flag() returns instead of panicking
FlagVec_find_ok(U, f) ==
    CASE U = "BoolVec" -> TRUE
      [] U = "BitVec" -> TRUE
      [] U = "HierarchicalBitVec" ->
            /\ Hier_find_a_true_bit_ok(f)
            /\ Len(f.levels) > 0 =>
                  /\ BitVec_block_ok(f.levels[Len(f.levels)], 0)
                  /\ BitVec_get_block(f.levels[Len(f.levels)], 0) # 0 =>
                        Hier_descend_ok(f.levels, Len(f.levels) - 1,
                            trailing_zeros(BitVec_get_block(f.levels[Len(f.levels)], 0),
                                           BITS_PER_BLOCK))

\* What true_flags() yields: [ids, fault]
FlagVec_true_flags(U, f) ==
    CASE U = "BoolVec" -> [ids |-> BoolVec_true_flags(f), fault |-> FALSE]
      [] U = "BitVec" -> [ids |-> BitVec_true_bits(f), fault |-> FALSE]
      [] U = "HierarchicalBitVec" -> Hier_true_bits(f)

\* ------------------------------------- flag_based/mod.rs: FlagsBasedPool
FlagsBasedPool_new(U) ==
    [alloc |-> FlagVec_new(U), free |-> FlagVec_new(U), items |-> <<>>, num_items |-> 0]

\* Mutant: with_capacity gives free one flag fewer than alloc.
FlagsBasedPool_with_capacity_short_free(U, num_items) ==
    [alloc |-> FlagVec_with_flags(U, num_items, FALSE),
     free |-> FlagVec_with_flags(U, IF num_items = 0 THEN 0 ELSE num_items - 1, TRUE),
     items |-> [i \in 1..num_items |-> NoItem],
     num_items |-> 0]

FlagsBasedPool_with_capacity(U, num_items) ==
    [alloc |-> FlagVec_with_flags(U, num_items, FALSE),
     free |-> FlagVec_with_flags(U, num_items, TRUE),
     items |-> [i \in 1..num_items |-> NoItem],
     num_items |-> 0]

FlagsBasedPool_len(p) == p.num_items

\* self.items[id].as_ref().unwrap(): [ret, fault]
FlagsBasedPool_get(p, id) ==
    IF id >= Len(p.items) THEN [ret |-> NoItem, fault |-> TRUE]
    ELSE IF p.items[id + 1] = NoItem THEN [ret |-> NoItem, fault |-> TRUE]
    ELSE [ret |-> p.items[id + 1], fault |-> FALSE]

\* *pool.get_mut(id) = value: [pool, fault]
FlagsBasedPool_get_mut(p, id, value) ==
    IF FlagsBasedPool_get(p, id).fault THEN [pool |-> p, fault |-> TRUE]
    ELSE [pool |-> [p EXCEPT !.items[id + 1] = value], fault |-> FALSE]

\* Mutant: growth appends false to free as well as to alloc.
FlagsBasedPool_expand_free_false(U, p) ==
    IF p.num_items < FlagVec_num_flags(U, p.alloc) THEN p
    ELSE LET new_num_items == IF p.num_items = 0 THEN 1 ELSE p.num_items * 2
             num_new_items == new_num_items - p.num_items
         IN [p EXCEPT !.alloc = FlagVec_add_flags(U, @, num_new_items, FALSE),
                      !.free = FlagVec_add_flags(U, @, num_new_items, FALSE),
                      !.items = Resize(@, new_num_items, NoItem)]

\* The add_flags calls of expand_if_needed return instead of panicking.
FlagsBasedPool_expand_ok(U, p) ==
    \/ p.num_items < FlagVec_num_flags(U, p.alloc)
    \/ \E num_new_items \in {(IF p.num_items = 0 THEN 1 ELSE p.num_items * 2) - p.num_items} :
          /\ FlagVec_add_ok(U, p.alloc, num_new_items, FALSE)
          /\ FlagVec_add_ok(U, p.free, num_new_items, TRUE)

FlagsBasedPool_expand_if_needed(U, p) ==
    IF p.num_items < FlagVec_num_flags(U, p.alloc) THEN p
    ELSE LET GROWTH_FACTOR == 2
             new_num_items == IF p.num_items = 0 THEN 1 ELSE p.num_items * GROWTH_FACTOR
             num_new_items == new_num_items - p.num_items
         IN [p EXCEPT !.alloc = FlagVec_add_flags(U, @, num_new_items, FALSE),
                      !.free = FlagVec_add_flags(U, @, num_new_items, TRUE),
                      !.items = Resize(@, new_num_items, NoItem)]

\* allocate, from the two set_flag calls on: e is the pool after
\* expand_if_needed and id the free flag found, already checked.
FlagsBasedPool_occupy(U, e, id, item, flagged) ==
    IF ~FlagVec_set_ok(U, e.alloc, id)
    THEN [pool |-> e, id |-> None, fault |-> TRUE]
    ELSE IF ~FlagVec_set_ok(U, e.free, id)
    THEN [pool |-> [e EXCEPT !.alloc = flagged.alloc], id |-> None, fault |-> TRUE]
    ELSE IF id >= Len(e.items) \/ e.items[id + 1] # NoItem
    THEN [pool |-> flagged, id |-> None, fault |-> TRUE]
    ELSE [pool |-> [flagged EXCEPT !.items[id + 1] = item,
                                   !.num_items = @ + 1],
          id |-> id, fault |-> FALSE]

\* allocate, from the unwrap of find_a_true_flag and the two asserts on.
FlagsBasedPool_take(U, e, id, item) ==
    IF id = None THEN [pool |-> e, id |-> None, fault |-> TRUE]
    ELSE IF ~FlagVec_get_ok(U, e.alloc, id) \/ FlagVec_get_flag(U, e.alloc, id) # FALSE
    THEN [pool |-> e, id |-> None, fault |-> TRUE]
    ELSE IF ~FlagVec_get_ok(U, e.free, id) \/ FlagVec_get_flag(U, e.free, id) # TRUE
    THEN [pool |-> e, id |-> None, fault |-> TRUE]
    ELSE FlagsBasedPool_occupy(U, e, id, item,
             [e EXCEPT !.alloc = FlagVec_set_flag(U, @, id, TRUE),
                       !.free = FlagVec_set_flag(U, @, id, FALSE)])

\* allocate, after expand_if_needed has returned e.
FlagsBasedPool_find(U, e, item) ==
    FlagsBasedPool_take(U, e, FlagVec_find_a_true_flag(U, e.free), item)

\* allocate(item): [pool, id, fault]; pool is the state reached when it
\* returns or panics.
FlagsBasedPool_allocate(U, p, item) ==
    FlagsBasedPool_find(U, FlagsBasedPool_expand_if_needed(U, p), item)

\* Mutant: deallocate clears the flags and the count but leaves the item in
\* its slot.
FlagsBasedPool_deallocate_keeps_item(U, p, id) ==
    IF id >= Len(p.items) \/ p.items[id + 1] = NoItem
       \/ ~FlagVec_get_ok(U, p.alloc, id) \/ FlagVec_get_flag(U, p.alloc, id) # TRUE
       \/ ~FlagVec_get_ok(U, p.free, id) \/ FlagVec_get_flag(U, p.free, id) # FALSE
    THEN [pool |-> p, fault |-> TRUE]
    ELSE [pool |-> [p EXCEPT !.alloc = FlagVec_set_flag(U, @, id, FALSE),
                             !.free = FlagVec_set_flag(U, @, id, TRUE),
                             !.num_items = @ - 1],
          fault |-> FALSE]

\* deallocate(id): [pool, fault]
FlagsBasedPool_deallocate(U, p, id) ==
    IF id >= Len(p.items) \/ p.items[id + 1] = NoItem
    THEN [pool |-> p, fault |-> TRUE]
    ELSE IF ~FlagVec_get_ok(U, p.alloc, id) \/ FlagVec_get_flag(U, p.alloc, id) # TRUE
    THEN [pool |-> p, fault |-> TRUE]
    ELSE IF ~FlagVec_get_ok(U, p.free, id) \/ FlagVec_get_flag(U, p.free, id) # FALSE
    THEN [pool |-> p, fault |-> TRUE]
    ELSE IF ~FlagVec_set_ok(U, p.alloc, id)
    THEN [pool |-> p, fault |-> TRUE]
    ELSE IF ~FlagVec_set_ok(U, p.free, id)
    THEN [pool |-> [p EXCEPT !.alloc = FlagVec_set_flag(U, @, id, FALSE)], fault |-> TRUE]
    ELSE [pool |-> [p EXCEPT !.alloc = FlagVec_set_flag(U, @, id, FALSE),
                             !.free = FlagVec_set_flag(U, @, id, TRUE),
                             !.items[id + 1] = NoItem,
                             !.num_items = @ - 1],
          fault |-> FALSE]

\* Iter::next over the ids the flag iterator yields, until None or a panic
\* of self.items[id].as_ref().unwrap(): [ids, items, fault]
RECURSIVE MapSlots(_, _)
MapSlots(items, ids) ==
    IF ids = <<>> THEN [ids |-> <<>>, items |-> <<>>, fault |-> FALSE]
    ELSE LET id == Head(ids) IN
         IF id >= Len(items) \/ items[id + 1] = NoItem
         THEN [ids |-> <<>>, items |-> <<>>, fault |-> TRUE]
         ELSE LET rest == MapSlots(items, Tail(ids))
              IN [ids |-> <<id>> \o rest.ids,
                  items |-> <<items[id + 1]>> \o rest.items,
                  fault |-> rest.fault]

FlagsBasedPool_iter(U, p) ==
    LET t == FlagVec_true_flags(U, p.alloc)
        m == MapSlots(p.items, t.ids)
    IN [ids |-> m.ids, items |-> m.items, fault |-> m.fault \/ t.fault]

\* ------------------------------------------------------------ simple.rs
Simple_new == [items |-> <<>>, num_items |-> 0]

\* Mutant: with_capacity reserves one slot less than asked.
Simple_with_capacity_one_short(num_items) ==
    [items |-> [i \in 1..(IF num_items = 0 THEN 0 ELSE num_items - 1) |-> NoItem],
     num_items |-> 0]

Simple_with_capacity(num_items) ==
    [items |-> [i \in 1..num_items |-> NoItem], num_items |-> 0]

Simple_get(p, id) ==
    IF id >= Len(p.items) THEN [ret |-> NoItem, fault |-> TRUE]
    ELSE IF p.items[id + 1] = NoItem THEN [ret |-> NoItem, fault |-> TRUE]
    ELSE [ret |-> p.items[id + 1], fault |-> FALSE]

Simple_get_mut(p, id, value) ==
    IF Simple_get(p, id).fault THEN [pool |-> p, fault |-> TRUE]
    ELSE [pool |-> [p EXCEPT !.items[id + 1] = value], fault |-> FALSE]

\* Mutant: the scan takes slot 0 without testing is_none().
Simple_allocate_overwrites(p, item) ==
    LET e == IF p.num_items = Len(p.items)
             THEN [p EXCEPT !.items = Resize(@, IF p.num_items = 0 THEN 1
                                                ELSE p.num_items * 2, NoItem)]
             ELSE p
    IN [pool |-> [e EXCEPT !.items[1] = item, !.num_items = @ + 1],
        id |-> 0, fault |-> FALSE]

\* Mutant: the storage grows whenever its last slot is occupied.
Simple_allocate_grows_early(p, item) ==
    LET e == IF Len(p.items) = 0 \/ p.items[Len(p.items)] # NoItem
             THEN [p EXCEPT !.items = Resize(@, IF Len(@) = 0 THEN 1 ELSE Len(@) * 2, NoItem)]
             ELSE p
        F == {id \in 0..(Len(e.items) - 1) : e.items[id + 1] = NoItem}
    IN [pool |-> [e EXCEPT !.items[Min(F) + 1] = item, !.num_items = @ + 1],
        id |-> Min(F), fault |-> FALSE]

Simple_allocate(p, item) ==
    LET GROWTH_FACTOR == 2
        e == IF p.num_items = Len(p.items)
             THEN LET new_num_items == IF p.num_items = 0 THEN 1
                                       ELSE p.num_items * GROWTH_FACTOR
                  IN [p EXCEPT !.items = Resize(@, new_num_items, NoItem)]
             ELSE p
        F == {id \in 0..(Len(e.items) - 1) : e.items[id + 1] = NoItem}
    IN IF F = {} THEN [pool |-> e, id |-> None, fault |-> TRUE]
       ELSE [pool |-> [e EXCEPT !.items[Min(F) + 1] = item, !.num_items = @ + 1],
             id |-> Min(F), fault |-> FALSE]

\* Mutant: deallocate moves the last slot's item into the freed slot.
Simple_deallocate_swap_remove(p, id) ==
    IF id >= Len(p.items) \/ p.items[id + 1] = NoItem
    THEN [pool |-> p, fault |-> TRUE]
    ELSE [pool |-> [p EXCEPT !.items = [@ EXCEPT ![id + 1] = p.items[Len(p.items)],
                                                 ![Len(p.items)] = NoItem],
                             !.num_items = @ - 1],
          fault |-> FALSE]

\* Mutant: deallocate forgets num_items -= 1.
Simple_deallocate_keeps_count(p, id) ==
    IF id >= Len(p.items) \/ p.items[id + 1] = NoItem
    THEN [pool |-> p, fault |-> TRUE]
    ELSE [pool |-> [p EXCEPT !.items[id + 1] = NoItem], fault |-> FALSE]

Simple_deallocate(p, id) ==
    IF id >= Len(p.items) \/ p.items[id + 1] = NoItem
    THEN [pool |-> p, fault |-> TRUE]
    ELSE [pool |-> [p EXCEPT !.items[id + 1] = NoItem, !.num_items = @ - 1],
          fault |-> FALSE]

\* Iter::next over the slice, skipping None: the ids of the slots yielded
RECURSIVE Simple_drain(_, _)
Simple_drain(items, pos) ==
    IF pos >= Len(items) THEN <<>>
    ELSE (IF items[pos + 1] # NoItem THEN <<pos>> ELSE <<>>) \o Simple_drain(items, pos + 1)

\* Iter::next with the inner slice iterator at position pos: [ret, pos];
\* ret is the id of the slot whose item is yielded.
RECURSIVE Simple_iter_next(_, _)
Simple_iter_next(items, pos) ==
    IF pos >= Len(items) THEN [ret |-> None, pos |-> pos]
    ELSE IF items[pos + 1] # NoItem THEN [ret |-> pos, pos |-> pos + 1]
    ELSE Simple_iter_next(items, pos + 1)

\* Mutant: the iteration starts at slot 1.
Simple_iter_skips_first(p) ==
    LET ids == Simple_drain(p.items, 1)
    IN [ids |-> ids, items |-> [i \in 1..Len(ids) |-> p.items[ids[i] + 1]], fault |-> FALSE]

Simple_iter(p) ==
    LET ids == Simple_drain(p.items, 0)
    IN [ids |-> ids, items |-> [i \in 1..Len(ids) |-> p.items[ids[i] + 1]], fault |-> FALSE]

\* ---------------------------------------------------------- freelist.rs
\* enum Slot: Item(T) or Free{next_free_slot}
SlotItem(item) == [tag |-> "Item", item |-> item, next_free_slot |-> None]
SlotFree(next_free_slot) == [tag |-> "Free", item |-> NoItem, next_free_slot |-> next_free_slot]

FreeList_new == [slots |-> <<>>, next_free_slot |-> None, num_items |-> 0]

FreeList_with_capacity(num_items) ==
    IF num_items = 0 THEN [slots |-> <<>>, next_free_slot |-> None, num_items |-> 0]
    ELSE [slots |-> [i \in 1..num_items |->
                        IF i = num_items THEN SlotFree(None) ELSE SlotFree(i)],
          next_free_slot |-> 0,
          num_items |-> 0]

\* Mutant: a Free slot yields a default item instead of panicking.
FreeList_get_default(p, id) ==
    IF id >= Len(p.slots) THEN [ret |-> NoItem, fault |-> TRUE]
    ELSE [ret |-> p.slots[id + 1].item, fault |-> FALSE]

FreeList_get(p, id) ==
    IF id >= Len(p.slots) THEN [ret |-> NoItem, fault |-> TRUE]
    ELSE IF p.slots[id + 1].tag = "Free" THEN [ret |-> NoItem, fault |-> TRUE]
    ELSE [ret |-> p.slots[id + 1].item, fault |-> FALSE]

\* Mutant: the write through get_mut lands in every occupied slot.
FreeList_get_mut_writes_all(p, id, value) ==
    IF FreeList_get(p, id).fault THEN [pool |-> p, fault |-> TRUE]
    ELSE [pool |-> [p EXCEPT !.slots =
                       [i \in 1..Len(p.slots) |->
                          IF p.slots[i].tag = "Item" THEN SlotItem(value) ELSE p.slots[i]]],
          fault |-> FALSE]

FreeList_get_mut(p, id, value) ==
    IF FreeList_get(p, id).fault THEN [pool |-> p, fault |-> TRUE]
    ELSE [pool |-> [p EXCEPT !.slots[id + 1] = SlotItem(value)], fault |-> FALSE]

\* Mutant: the new slots are not linked to one another.
FreeList_expand_unlinked(p) ==
    IF p.next_free_slot # None THEN p
    ELSE LET old_num_items == Len(p.slots)
             new_num_items == IF Len(p.slots) = 0 THEN 1 ELSE old_num_items * 2
         IN [p EXCEPT !.slots = Resize(@, new_num_items, SlotFree(None)),
                      !.next_free_slot = old_num_items]

FreeList_expand_if_needed(p) ==
    IF p.next_free_slot # None THEN p
    ELSE LET GROWTH_FACTOR == 2
             old_num_items == Len(p.slots)
             new_num_items == IF Len(p.slots) = 0 THEN 1 ELSE old_num_items * GROWTH_FACTOR
         IN [p EXCEPT !.slots =
                 [i \in 1..new_num_items |->
                     IF i <= old_num_items THEN p.slots[i]
                     ELSE IF i = new_num_items THEN SlotFree(None)
                     ELSE SlotFree(i)],
                      !.next_free_slot = old_num_items]

\* Mutant: allocate returns the item count instead of the slot it filled.
FreeList_allocate_returns_count(p, item) ==
    LET e == FreeList_expand_if_needed(p)
        free_slot_for_item == e.next_free_slot
    IN IF free_slot_for_item = None \/ free_slot_for_item >= Len(e.slots)
       THEN [pool |-> e, id |-> None, fault |-> TRUE]
       ELSE IF e.slots[free_slot_for_item + 1].tag = "Item"
       THEN [pool |-> e, id |-> None, fault |-> TRUE]
       ELSE [pool |-> [e EXCEPT !.next_free_slot =
                                    e.slots[free_slot_for_item + 1].next_free_slot,
                                !.slots[free_slot_for_item + 1] = SlotItem(item),
                                !.num_items = @ + 1],
             id |-> e.num_items, fault |-> FALSE]

FreeList_allocate(p, item) ==
    LET e == FreeList_expand_if_needed(p)
        free_slot_for_item == e.next_free_slot
    IN IF free_slot_for_item = None \/ free_slot_for_item >= Len(e.slots)
       THEN [pool |-> e, id |-> None, fault |-> TRUE]
       ELSE IF e.slots[free_slot_for_item + 1].tag = "Item"
       THEN [pool |-> e, id |-> None, fault |-> TRUE]
       ELSE [pool |-> [e EXCEPT !.next_free_slot =
                                    e.slots[free_slot_for_item + 1].next_free_slot,
                                !.slots[free_slot_for_item + 1] = SlotItem(item),
                                !.num_items = @ + 1],
             id |-> free_slot_for_item, fault |-> FALSE]

\* Mutant: deallocate of the last slot gives the slot back to the allocator.
FreeList_deallocate_pops_last(p, item_id) ==
    IF item_id >= Len(p.slots) THEN [pool |-> p, fault |-> TRUE]
    ELSE IF p.slots[item_id + 1].tag = "Free" THEN [pool |-> p, fault |-> TRUE]
    ELSE IF item_id = Len(p.slots) - 1
    THEN [pool |-> [p EXCEPT !.slots = SubSeq(@, 1, Len(@) - 1), !.num_items = @ - 1],
          fault |-> FALSE]
    ELSE [pool |-> [p EXCEPT !.slots[item_id + 1] = SlotFree(p.next_free_slot),
                             !.next_free_slot = item_id,
                             !.num_items = @ - 1],
          fault |-> FALSE]

FreeList_deallocate(p, item_id) ==
    IF item_id >= Len(p.slots) THEN [pool |-> p, fault |-> TRUE]
    ELSE IF p.slots[item_id + 1].tag = "Free" THEN [pool |-> p, fault |-> TRUE]
    ELSE [pool |-> [p EXCEPT !.slots[item_id + 1] = SlotFree(p.next_free_slot),
                             !.next_free_slot = item_id,
                             !.num_items = @ - 1],
          fault |-> FALSE]

RECURSIVE FreeList_drain(_, _)
FreeList_drain(slots, pos) ==
    IF pos >= Len(slots) THEN <<>>
    ELSE (IF slots[pos + 1].tag = "Item" THEN <<pos>> ELSE <<>>) \o FreeList_drain(slots, pos + 1)

\* Iter::next with the inner slice iterator at position pos: [ret, pos]
RECURSIVE FreeList_iter_next(_, _)
FreeList_iter_next(slots, pos) ==
    IF pos >= Len(slots) THEN [ret |-> None, pos |-> pos]
    ELSE IF slots[pos + 1].tag = "Item" THEN [ret |-> pos, pos |-> pos + 1]
    ELSE FreeList_iter_next(slots, pos + 1)

FreeList_iter(p) ==
    LET ids == FreeList_drain(p.slots, 0)
    IN [ids |-> ids, items |-> [i \in 1..Len(ids) |-> p.slots[ids[i] + 1].item],
        fault |-> FALSE]

\* ------------------------------------------------------------ stacks.rs
EMPTY_BLOCK == 0
FULL_BLOCK == BlockMAX(FLAGS_PER_BLOCK)

\* Vec::remove(i) of the first i with s[i] == x, if any
RemoveFirst(s, x) ==
    LET I == {i \in 1..Len(s) : s[i] = x}
    IN IF I = {} THEN s
       ELSE SubSeq(s, 1, Min(I) - 1) \o SubSeq(s, Min(I) + 1, Len(s))

Stacks_new ==
    [items |-> <<>>, num_items |-> 0, flags |-> <<>>,
     open_blocks |-> <<>>, alloc_blocks |-> <<>>]

\* Mutant: with_capacity leaves open_blocks empty.
Stacks_with_capacity_no_open_blocks(num_items) ==
    LET num_blocks == IF num_items = 0 THEN 0
                      ELSE ((num_items - 1) \div FLAGS_PER_BLOCK) + 1
    IN [items |-> [i \in 1..(num_blocks * FLAGS_PER_BLOCK) |-> NoItem],
        num_items |-> 0,
        flags |-> [i \in 1..num_blocks |-> 0],
        open_blocks |-> <<>>,
        alloc_blocks |-> <<>>]

Stacks_with_capacity(num_items) ==
    LET num_blocks == IF num_items = 0 THEN 0
                      ELSE ((num_items - 1) \div FLAGS_PER_BLOCK) + 1
    IN [items |-> [i \in 1..(num_blocks * FLAGS_PER_BLOCK) |-> NoItem],
        num_items |-> 0,
        flags |-> [i \in 1..num_blocks |-> 0],
        open_blocks |-> RevRange(0, num_blocks),
        alloc_blocks |-> <<>>]

Stacks_get(p, id) ==
    IF id >= Len(p.items) THEN [ret |-> NoItem, fault |-> TRUE]
    ELSE IF p.items[id + 1] = NoItem THEN [ret |-> NoItem, fault |-> TRUE]
    ELSE [ret |-> p.items[id + 1], fault |-> FALSE]

\* Mutant: the write goes to a copy of the item and is lost.
Stacks_get_mut_drops_write(p, id, value) ==
    IF Stacks_get(p, id).fault THEN [pool |-> p, fault |-> TRUE]
    ELSE [pool |-> p, fault |-> FALSE]

Stacks_get_mut(p, id, value) ==
    IF Stacks_get(p, id).fault THEN [pool |-> p, fault |-> TRUE]
    ELSE [pool |-> [p EXCEPT !.items[id + 1] = value], fault |-> FALSE]

\* Mutant: growth adds one block instead of doubling the blocks.
Stacks_expand_adds_one_block(p) ==
    IF Len(p.open_blocks) # 0 THEN [pool |-> p, fault |-> FALSE]
    ELSE LET old_num_blocks == Len(p.flags)
             new_num_blocks == old_num_blocks + 1
         IN [pool |-> [p EXCEPT !.items = Resize(@, new_num_blocks * FLAGS_PER_BLOCK, NoItem),
                                !.flags = Resize(@, new_num_blocks, 0),
                                !.open_blocks = @ \o RevRange(old_num_blocks, new_num_blocks)],
             fault |-> FALSE]

\* expand_if_needed: [pool, fault]
Stacks_expand_if_needed(p) ==
    IF Len(p.open_blocks) # 0 THEN [pool |-> p, fault |-> FALSE]
    ELSE IF Len(p.alloc_blocks) # Len(p.flags)
    THEN [pool |-> p, fault |-> TRUE]
    ELSE IF \E i \in 1..Len(p.flags) : p.flags[i] # FULL_BLOCK
    THEN [pool |-> p, fault |-> TRUE]
    ELSE IF p.num_items = 0 /\ Len(p.flags) # 0
    THEN [pool |-> p, fault |-> TRUE]
    ELSE LET GROWTH_FACTOR == 2
             old_num_blocks == Len(p.flags)
             new_num_blocks == IF p.num_items = 0 THEN 1
                               ELSE old_num_blocks * GROWTH_FACTOR
             new_num_items == new_num_blocks * FLAGS_PER_BLOCK
             grown == [p EXCEPT !.items = Resize(@, new_num_items, NoItem),
                                !.flags = Resize(@, new_num_blocks, 0),
                                !.open_blocks = @ \o RevRange(old_num_blocks, new_num_blocks)]
         IN [pool |-> grown,
             fault |-> Len(grown.items) # Len(grown.flags) * FLAGS_PER_BLOCK]

\* allocate(item): [pool, id, fault]
Stacks_allocate(p, item) ==
    LET x == Stacks_expand_if_needed(p)
        e == x.pool
        open_block == e.open_blocks[Len(e.open_blocks)]
        local_bit == trailing_ones(e.flags[open_block + 1], FLAGS_PER_BLOCK)
        new_flags == BitOr(e.flags[open_block + 1], Shl(1, local_bit, FLAGS_PER_BLOCK),
                           FLAGS_PER_BLOCK)
        block_is_now_full == new_flags = FULL_BLOCK
        block_now_has_one_item_allocated == count_ones(new_flags, FLAGS_PER_BLOCK) = 1
        marked == [e EXCEPT !.flags[open_block + 1] = new_flags,
                            !.open_blocks = IF block_is_now_full
                                            THEN SubSeq(@, 1, Len(@) - 1) ELSE @,
                            !.alloc_blocks = IF block_now_has_one_item_allocated
                                             THEN Append(@, open_block) ELSE @]
        global_bit == open_block * FLAGS_PER_BLOCK + local_bit
    IN IF x.fault THEN [pool |-> e, id |-> None, fault |-> TRUE]
       ELSE IF Len(e.open_blocks) = 0 THEN [pool |-> e, id |-> None, fault |-> TRUE]
       ELSE IF open_block >= Len(e.flags) \/ e.flags[open_block + 1] = FULL_BLOCK
       THEN [pool |-> e, id |-> None, fault |-> TRUE]
       ELSE IF global_bit >= Len(e.items) \/ e.items[global_bit + 1] # NoItem
       THEN [pool |-> marked, id |-> None, fault |-> TRUE]
       ELSE [pool |-> [marked EXCEPT !.items[global_bit + 1] = item,
                                     !.num_items = @ + 1],
             id |-> global_bit, fault |-> FALSE]

\* Mutant: only the second assertion of deallocate (after the flags and the
\* block stacks were updated) is kept.
Stacks_deallocate_late_assert(p, id) ==
    LET block == id \div FLAGS_PER_BLOCK
        local_bit == id % FLAGS_PER_BLOCK
        new_flags == ClearBit(p.flags[block + 1], local_bit)
        updated == [p EXCEPT !.flags[block + 1] = new_flags,
                             !.alloc_blocks = IF new_flags = EMPTY_BLOCK
                                              THEN RemoveFirst(@, block) ELSE @,
                             !.open_blocks =
                                 IF count_ones(new_flags, FLAGS_PER_BLOCK) = FLAGS_PER_BLOCK - 1
                                 THEN Append(@, block) ELSE @]
    IN IF block >= Len(p.flags) THEN [pool |-> p, fault |-> TRUE]
       ELSE IF id >= Len(p.items) \/ p.items[id + 1] = NoItem
       THEN [pool |-> updated, fault |-> TRUE]
       ELSE [pool |-> [updated EXCEPT !.items[id + 1] = NoItem, !.num_items = @ - 1],
             fault |-> FALSE]

\* deallocate(id): [pool, fault]
\* Mutant: a block that becomes empty stays in alloc_blocks.
Stacks_deallocate_keeps_alloc_block(p, id) ==
    LET block == id \div FLAGS_PER_BLOCK
        local_bit == id % FLAGS_PER_BLOCK
        new_flags == ClearBit(p.flags[block + 1], local_bit)
    IN IF id >= Len(p.items) \/ p.items[id + 1] = NoItem
       THEN [pool |-> p, fault |-> TRUE]
       ELSE IF block >= Len(p.flags) THEN [pool |-> p, fault |-> TRUE]
       ELSE [pool |-> [p EXCEPT !.flags[block + 1] = new_flags,
                                !.open_blocks =
                                    IF count_ones(new_flags, FLAGS_PER_BLOCK) = FLAGS_PER_BLOCK - 1
                                    THEN Append(@, block) ELSE @,
                                !.items[id + 1] = NoItem,
                                !.num_items = @ - 1],
             fault |-> FALSE]

Stacks_deallocate(p, id) ==
    LET block == id \div FLAGS_PER_BLOCK
        local_bit == id % FLAGS_PER_BLOCK
        new_flags == ClearBit(p.flags[block + 1], local_bit)
    IN IF id >= Len(p.items) \/ p.items[id + 1] = NoItem
       THEN [pool |-> p, fault |-> TRUE]
       ELSE IF block >= Len(p.flags) THEN [pool |-> p, fault |-> TRUE]
       ELSE [pool |-> [p EXCEPT !.flags[block + 1] = new_flags,
                                !.alloc_blocks = IF new_flags = EMPTY_BLOCK
                                                 THEN RemoveFirst(@, block) ELSE @,
                                !.open_blocks =
                                    IF count_ones(new_flags, FLAGS_PER_BLOCK) = FLAGS_PER_BLOCK - 1
                                    THEN Append(@, block) ELSE @,
                                !.items[id + 1] = NoItem,
                                !.num_items = @ - 1],
             fault |-> FALSE]

\* Iter::new
Stacks_iter_new == [block |-> 0, offset |-> 0, pos |-> 0]

\* Mutant: next() takes the highest one bit of the block, not the lowest.
Stacks_iter_next_highest_first(p, it) ==
    LET exhausted == it.block = EMPTY_BLOCK /\ it.pos >= Len(p.alloc_blocks)
        blk == p.alloc_blocks[it.pos + 1]
        loaded == IF it.block = EMPTY_BLOCK
                  THEN [block |-> p.flags[blk + 1], offset |-> blk * FLAGS_PER_BLOCK,
                        pos |-> it.pos + 1]
                  ELSE it
        local_bit == CHOOSE b \in OneBits(loaded.block, FLAGS_PER_BLOCK) :
                        \A c \in OneBits(loaded.block, FLAGS_PER_BLOCK) : c <= b
        global_bit == loaded.offset + local_bit
    IN IF exhausted THEN [ret |-> None, it |-> it, fault |-> FALSE]
       ELSE IF loaded.block = 0 THEN [ret |-> None, it |-> loaded, fault |-> TRUE]
       ELSE [ret |-> global_bit, it |-> [loaded EXCEPT !.block = ClearBit(@, local_bit)],
             fault |-> FALSE]

\* Iter::next; pos counts the entries of alloc_blocks consumed: [ret, it, fault]
\* ret is the id of the slot whose item is yielded.
Stacks_iter_next(p, it) ==
    LET exhausted == it.block = EMPTY_BLOCK /\ it.pos >= Len(p.alloc_blocks)
        blk == p.alloc_blocks[it.pos + 1]
        loaded == IF it.block = EMPTY_BLOCK
                  THEN [block |-> p.flags[blk + 1], offset |-> blk * FLAGS_PER_BLOCK,
                        pos |-> it.pos + 1]
                  ELSE it
        local_bit == trailing_zeros(loaded.block, FLAGS_PER_BLOCK)
        global_bit == loaded.offset + local_bit
    IN IF exhausted THEN [ret |-> None, it |-> it, fault |-> FALSE]
       ELSE IF it.block = EMPTY_BLOCK /\ blk >= Len(p.flags)
       THEN [ret |-> None, it |-> it, fault |-> TRUE]
       ELSE IF loaded.block = 0 THEN [ret |-> None, it |-> loaded, fault |-> TRUE]
       ELSE IF global_bit >= Len(p.items) \/ p.items[global_bit + 1] = NoItem
       THEN [ret |-> None, it |-> [loaded EXCEPT !.block = ClearBit(@, local_bit)],
             fault |-> TRUE]
       ELSE [ret |-> global_bit, it |-> [loaded EXCEPT !.block = ClearBit(@, local_bit)],
             fault |-> FALSE]

RECURSIVE Stacks_drain(_, _)
Stacks_drain(p, it) ==
    LET r == Stacks_iter_next(p, it)
    IN IF r.fault THEN [ids |-> <<>>, fault |-> TRUE]
       ELSE IF r.ret = None THEN [ids |-> <<>>, fault |-> FALSE]
       ELSE LET rest == Stacks_drain(p, r.it)
            IN [ids |-> <<r.ret>> \o rest.ids, fault |-> rest.fault]

Stacks_iter(p) ==
    LET d == Stacks_drain(p, Stacks_iter_new)
    IN [ids |-> d.ids, items |-> [i \in 1..Len(d.ids) |-> p.items[d.ids[i] + 1]],
        fault |-> d.fault]

\* ----------------------------------------------------------- notsafe.rs
\* Node addresses.  Box::new may return any address that holds no live
\* node; the heap maps every address to its node, with live = FALSE for
\* freed memory.  Dereferencing NULL or a freed node is reported as a fault.
\* There is one address more than the blocks a pool can hold, so that
\* Box::new always finds a free one.
NumAddrs == ((MaxCap + FLAGS_PER_BLOCK - 1) \div FLAGS_PER_BLOCK) + 1
Addrs == 1..NumAddrs
FreedNode == [block |-> 0, prev |-> NULL, next |-> NULL, live |-> FALSE]

\* (*ptr) is a read of a live node
Deref_ok(heap, ptr) == ptr \in Addrs /\ heap[ptr].live

\* The addresses Box::new can return
NotSafe_free_addrs(p) == {a \in Addrs : ~p.heap[a].live}

NotSafe_new ==
    [items |-> <<>>, num_items |-> 0, flags |-> <<>>, open_blocks |-> <<>>,
     nodes |-> <<>>, head |-> NULL, heap |-> [a \in Addrs |-> FreedNode]]

NotSafe_with_capacity(capacity) ==
    LET num_blocks == IF capacity = 0 THEN 0
                      ELSE ((capacity - 1) \div FLAGS_PER_BLOCK) + 1
    IN [items |-> [i \in 1..(num_blocks * FLAGS_PER_BLOCK) |-> NoItem],
        num_items |-> 0,
        flags |-> [i \in 1..num_blocks |-> 0],
        open_blocks |-> RevRange(0, num_blocks),
        nodes |-> [i \in 1..num_blocks |-> NULL],
        head |-> NULL,
        heap |-> [a \in Addrs |-> FreedNode]]

NotSafe_get(p, id) ==
    IF id >= Len(p.items) THEN [ret |-> NoItem, fault |-> TRUE]
    ELSE IF p.items[id + 1] = NoItem THEN [ret |-> NoItem, fault |-> TRUE]
    ELSE [ret |-> p.items[id + 1], fault |-> FALSE]

NotSafe_get_mut(p, id, value) ==
    IF NotSafe_get(p, id).fault THEN [pool |-> p, fault |-> TRUE]
    ELSE [pool |-> [p EXCEPT !.items[id + 1] = value], fault |-> FALSE]

\* expand_if_needed: [pool, fault]
NotSafe_expand_if_needed(p) ==
    IF Len(p.open_blocks) # 0 THEN [pool |-> p, fault |-> FALSE]
    ELSE IF \E i \in 1..Len(p.flags) : p.flags[i] # FULL_BLOCK
    THEN [pool |-> p, fault |-> TRUE]
    ELSE IF Len(p.nodes) # Len(p.flags)
    THEN [pool |-> p, fault |-> TRUE]
    ELSE IF p.num_items = 0 /\ Len(p.flags) # 0
    THEN [pool |-> p, fault |-> TRUE]
    ELSE LET GROWTH_FACTOR == 2
             old_num_blocks == Len(p.flags)
             new_num_blocks == IF p.num_items = 0 THEN 1
                               ELSE old_num_blocks * GROWTH_FACTOR
             new_num_items == new_num_blocks * FLAGS_PER_BLOCK
             grown == [p EXCEPT !.items = Resize(@, new_num_items, NoItem),
                                !.flags = Resize(@, new_num_blocks, EMPTY_BLOCK),
                                !.open_blocks = @ \o RevRange(old_num_blocks, new_num_blocks),
                                !.nodes = Resize(@, new_num_blocks, NULL)]
         IN [pool |-> grown,
             fault |-> Len(grown.items) # Len(grown.flags) * FLAGS_PER_BLOCK]

\* allocate(item), with node the address Box::new returns if it is called:
\* [pool, id, fault]
NotSafe_allocate(p, item, node) ==
    LET x == NotSafe_expand_if_needed(p)
        e == x.pool
        open_block == e.open_blocks[Len(e.open_blocks)]
        local_bit == trailing_ones(e.flags[open_block + 1], FLAGS_PER_BLOCK)
        new_flags == BitOr(e.flags[open_block + 1], Shl(1, local_bit, FLAGS_PER_BLOCK),
                           FLAGS_PER_BLOCK)
        block_is_now_full == new_flags = FULL_BLOCK
        block_now_has_one_item_allocated == count_ones(new_flags, FLAGS_PER_BLOCK) = 1
        marked == [e EXCEPT !.flags[open_block + 1] = new_flags,
                            !.open_blocks = IF block_is_now_full
                                            THEN SubSeq(@, 1, Len(@) - 1) ELSE @]
        boxed == [marked EXCEPT !.heap[node] =
                     [block |-> open_block, prev |-> NULL, next |-> e.head, live |-> TRUE]]
        mapped == [boxed EXCEPT !.nodes[open_block + 1] = node]
        linked == [mapped EXCEPT
                     !.heap = IF e.head # NULL
                              THEN [@ EXCEPT ![e.head].prev = node] ELSE @,
                     !.head = node]
        listed == IF block_now_has_one_item_allocated THEN linked ELSE marked
        global_bit == open_block * FLAGS_PER_BLOCK + local_bit
    IN IF x.fault THEN [pool |-> e, id |-> None, fault |-> TRUE]
       ELSE IF Len(e.open_blocks) = 0 THEN [pool |-> e, id |-> None, fault |-> TRUE]
       ELSE IF open_block >= Len(e.flags) \/ e.flags[open_block + 1] = FULL_BLOCK
       THEN [pool |-> e, id |-> None, fault |-> TRUE]
       ELSE IF block_now_has_one_item_allocated
               /\ (open_block >= Len(e.nodes) \/ e.nodes[open_block + 1] # NULL)
       THEN [pool |-> boxed, id |-> None, fault |-> TRUE]
       ELSE IF block_now_has_one_item_allocated /\ e.head # NULL
               /\ (~Deref_ok(mapped.heap, e.head) \/ mapped.heap[e.head].prev # NULL)
       THEN [pool |-> mapped, id |-> None, fault |-> TRUE]
       ELSE IF global_bit >= Len(e.items) \/ e.items[global_bit + 1] # NoItem
       THEN [pool |-> listed, id |-> None, fault |-> TRUE]
       ELSE [pool |-> [listed EXCEPT !.items[global_bit + 1] = item,
                                     !.num_items = @ + 1],
             id |-> global_bit, fault |-> FALSE]

\* Mutant: unlinking leaves the prev link of the following node as it was.
NotSafe_unlink_forward_only(p, block) ==
    LET node == p.nodes[block + 1]
        n == p.heap[node]
        h1 == IF n.prev # NULL THEN [p.heap EXCEPT ![n.prev].next = n.next] ELSE p.heap
    IN IF block >= Len(p.nodes) THEN [pool |-> p, fault |-> TRUE]
       ELSE IF node = NULL THEN [pool |-> p, fault |-> TRUE]
       ELSE IF ~Deref_ok(p.heap, node) THEN [pool |-> p, fault |-> TRUE]
       ELSE IF n.prev # NULL /\ ~Deref_ok(p.heap, n.prev) THEN [pool |-> p, fault |-> TRUE]
       ELSE [pool |-> [p EXCEPT !.head = IF node = p.head THEN n.next ELSE @,
                                !.heap = [h1 EXCEPT ![node] = FreedNode],
                                !.nodes[block + 1] = NULL],
             fault |-> FALSE]

\* The unsafe block of deallocate, entered when the block became empty:
\* unlinks and frees the block's node: [pool, fault]
NotSafe_unlink(p, block) ==
    LET node == p.nodes[block + 1]
        n == p.heap[node]
        h1 == IF n.prev # NULL THEN [p.heap EXCEPT ![n.prev].next = n.next] ELSE p.heap
        h2 == IF n.next # NULL THEN [h1 EXCEPT ![n.next].prev = n.prev] ELSE h1
    IN IF block >= Len(p.nodes) THEN [pool |-> p, fault |-> TRUE]
       ELSE IF node = NULL THEN [pool |-> p, fault |-> TRUE]
       ELSE IF ~Deref_ok(p.heap, node) THEN [pool |-> p, fault |-> TRUE]
       ELSE IF n.prev # NULL /\ ~Deref_ok(p.heap, n.prev) THEN [pool |-> p, fault |-> TRUE]
       ELSE IF n.next # NULL /\ ~Deref_ok(h1, n.next) THEN [pool |-> p, fault |-> TRUE]
       ELSE [pool |-> [p EXCEPT !.head = IF node = p.head THEN n.next ELSE @,
                                !.heap = [h2 EXCEPT ![node] = FreedNode],
                                !.nodes[block + 1] = NULL],
             fault |-> FALSE]

\* deallocate(id): [pool, fault]
NotSafe_deallocate(p, id) ==
    LET block == id \div FLAGS_PER_BLOCK
        local_bit == id % FLAGS_PER_BLOCK
        was_block_full == p.flags[block + 1] = FULL_BLOCK
        new_flags == ClearBit(p.flags[block + 1], local_bit)
        cleared == [p EXCEPT !.flags[block + 1] = new_flags,
                             !.open_blocks = IF was_block_full THEN Append(@, block) ELSE @]
        u == IF new_flags = EMPTY_BLOCK THEN NotSafe_unlink(cleared, block)
             ELSE [pool |-> cleared, fault |-> FALSE]
    IN IF id >= Len(p.items) \/ p.items[id + 1] = NoItem
       THEN [pool |-> p, fault |-> TRUE]
       ELSE IF block >= Len(p.flags) \/ ~TestBit(p.flags[block + 1], local_bit)
       THEN [pool |-> p, fault |-> TRUE]
       ELSE IF u.fault THEN u
       ELSE [pool |-> [u.pool EXCEPT !.items[id + 1] = NoItem, !.num_items = @ - 1],
             fault |-> FALSE]

\* Iter::new: [it, fault]
NotSafe_iter_new(p) ==
    IF p.head = NULL
    THEN [it |-> [next_node |-> NULL, curr_flags |-> 0, curr_offset |-> 0],
          fault |-> FALSE]
    ELSE IF ~Deref_ok(p.heap, p.head) \/ p.heap[p.head].block >= Len(p.flags)
    THEN [it |-> [next_node |-> NULL, curr_flags |-> 0, curr_offset |-> 0],
          fault |-> TRUE]
    ELSE [it |-> [next_node |-> p.heap[p.head].next,
                  curr_flags |-> p.flags[p.heap[p.head].block + 1],
                  curr_offset |-> p.heap[p.head].block * FLAGS_PER_BLOCK],
          fault |-> FALSE]

\* Iter::next: [ret, it, fault]; ret is the id of the slot whose item is yielded
NotSafe_iter_next(p, it) ==
    LET curr == it.next_node
        loaded == IF it.curr_flags = EMPTY_BLOCK
                  THEN [next_node |-> p.heap[curr].next,
                        curr_flags |-> p.flags[p.heap[curr].block + 1],
                        curr_offset |-> p.heap[curr].block * FLAGS_PER_BLOCK]
                  ELSE it
        local_offset == trailing_zeros(loaded.curr_flags, FLAGS_PER_BLOCK)
        global_offset == loaded.curr_offset + local_offset
        consumed == [loaded EXCEPT !.curr_flags = ClearBit(@, local_offset)]
    IN IF it.curr_flags = EMPTY_BLOCK /\ it.next_node = NULL
       THEN [ret |-> None, it |-> it, fault |-> FALSE]
       ELSE IF it.curr_flags = EMPTY_BLOCK
               /\ (~Deref_ok(p.heap, curr) \/ p.heap[curr].block >= Len(p.flags))
       THEN [ret |-> None, it |-> it, fault |-> TRUE]
       ELSE IF loaded.curr_flags = 0 THEN [ret |-> None, it |-> loaded, fault |-> TRUE]
       ELSE IF global_offset >= Len(p.items) \/ p.items[global_offset + 1] = NoItem
       THEN [ret |-> None, it |-> consumed, fault |-> TRUE]
       ELSE [ret |-> global_offset, it |-> consumed, fault |-> FALSE]

RECURSIVE NotSafe_drain(_, _)
NotSafe_drain(p, it) ==
    LET r == NotSafe_iter_next(p, it)
    IN IF r.fault THEN [ids |-> <<>>, fault |-> TRUE]
       ELSE IF r.ret = None THEN [ids |-> <<>>, fault |-> FALSE]
       ELSE LET rest == NotSafe_drain(p, r.it)
            IN [ids |-> <<r.ret>> \o rest.ids, fault |-> rest.fault]

NotSafe_iter(p) ==
    LET n == NotSafe_iter_new(p)
        d == IF n.fault THEN [ids |-> <<>>, fault |-> TRUE] ELSE NotSafe_drain(p, n.it)
    IN [ids |-> d.ids, items |-> [i \in 1..Len(d.ids) |-> p.items[d.ids[i] + 1]],
        fault |-> d.fault]

\* ------------------------------------------------------------- lib.rs
\* The implementations of trait Pool, selected by kind.
Kinds == {"BoolFlags", "BitFlags", "HierarchicalFlags", "Simple", "FreeList",
          "Stacks", "NotSafe"}

FlagKinds == {"BoolFlags", "BitFlags", "HierarchicalFlags"}

\* type BitFlags<T> = FlagsBasedPool<T, bit::BitVec> and its two siblings
FlagVecOf(k) ==
    CASE k = "BoolFlags" -> "BoolVec"
      [] k = "BitFlags" -> "BitVec"
      [] k = "HierarchicalFlags" -> "HierarchicalBitVec"

Pool_new(k) ==
    CASE k \in FlagKinds -> FlagsBasedPool_new(FlagVecOf(k))
      [] k = "Simple" -> Simple_new
      [] k = "FreeList" -> FreeList_new
      [] k = "Stacks" -> Stacks_new
      [] k = "NotSafe" -> NotSafe_new

Pool_with_capacity(k, num_items) ==
    CASE k \in FlagKinds -> FlagsBasedPool_with_capacity(FlagVecOf(k), num_items)
      [] k = "Simple" -> Simple_with_capacity(num_items)
      [] k = "FreeList" -> FreeList_with_capacity(num_items)
      [] k = "Stacks" -> Stacks_with_capacity(num_items)
      [] k = "NotSafe" -> NotSafe_with_capacity(num_items)

\* len(): every implementation returns self.num_items
Pool_len(k, p) == p.num_items

Pool_get(k, p, id) ==
    CASE k \in FlagKinds -> FlagsBasedPool_get(p, id)
      [] k = "Simple" -> Simple_get(p, id)
      [] k = "FreeList" -> FreeList_get(p, id)
      [] k = "Stacks" -> Stacks_get(p, id)
      [] k = "NotSafe" -> NotSafe_get(p, id)

Pool_get_mut(k, p, id, value) ==
    CASE k \in FlagKinds -> FlagsBasedPool_get_mut(p, id, value)
      [] k = "Simple" -> Simple_get_mut(p, id, value)
      [] k = "FreeList" -> FreeList_get_mut(p, id, value)
      [] k = "Stacks" -> Stacks_get_mut(p, id, value)
      [] k = "NotSafe" -> NotSafe_get_mut(p, id, value)

Pool_allocate(k, p, item, node) ==
    CASE k \in FlagKinds -> FlagsBasedPool_allocate(FlagVecOf(k), p, item)
      [] k = "Simple" -> Simple_allocate(p, item)
      [] k = "FreeList" -> FreeList_allocate(p, item)
      [] k = "Stacks" -> Stacks_allocate(p, item)
      [] k = "NotSafe" -> NotSafe_allocate(p, item, node)

Pool_deallocate(k, p, id) ==
    CASE k \in FlagKinds -> FlagsBasedPool_deallocate(FlagVecOf(k), p, id)
      [] k = "Simple" -> Simple_deallocate(p, id)
      [] k = "FreeList" -> FreeList_deallocate(p, id)
      [] k = "Stacks" -> Stacks_deallocate(p, id)
      [] k = "NotSafe" -> NotSafe_deallocate(p, id)

Pool_iter(k, p) ==
    CASE k \in FlagKinds -> FlagsBasedPool_iter(FlagVecOf(k), p)
      [] k = "Simple" -> Simple_iter(p)
      [] k = "FreeList" -> FreeList_iter(p)
      [] k = "Stacks" -> Stacks_iter(p)
      [] k = "NotSafe" -> NotSafe_iter(p)

\* The number of slots of the pool's storage.
Capacity(k, p) == IF k = "FreeList" THEN Len(p.slots) ELSE Len(p.items)

\* The addresses Box::new may return for a node of the pool (NotSafe only).
NodeChoices(k, p) == IF k = "NotSafe" THEN NotSafe_free_addrs(p) ELSE {NULL}

\* --------------------------------------------------------- reference.rs
EmptyMap == [x \in {} |-> NoItem]

\* HashMap::insert(id, item)
Insert(m, id, item) == [x \in (DOMAIN m) \cup {id} |-> IF x = id THEN item ELSE m[x]]

\* HashMap::remove(id)
Remove(m, id) == [x \in (DOMAIN m) \ {id} |-> m[x]]

Reference_new == [map |-> EmptyMap]

\* HashMap::with_capacity reserves room and holds nothing
Reference_with_capacity(num_items) == [map |-> EmptyMap]

Reference_len(r) == Cardinality(DOMAIN r.map)

Reference_get(r, id) ==
    IF id \notin DOMAIN r.map THEN [ret |-> NoItem, fault |-> TRUE]
    ELSE [ret |-> r.map[id], fault |-> FALSE]

Reference_get_mut(r, id, value) ==
    IF id \notin DOMAIN r.map THEN [pool |-> r, fault |-> TRUE]
    ELSE [pool |-> [r EXCEPT !.map = Insert(@, id, value)], fault |-> FALSE]

\* allocate(item), with address the address of the Box it creates
Reference_allocate(r, item, address) ==
    [pool |-> [r EXCEPT !.map = Insert(@, address, item)], id |-> address, fault |-> FALSE]

Reference_deallocate(r, id) ==
    IF id \notin DOMAIN r.map THEN [pool |-> r, fault |-> TRUE]
    ELSE [pool |-> [r EXCEPT !.map = Remove(@, id)], fault |-> FALSE]

\* map.values(): the order of a HashMap is unspecified and its one caller
\* sorts the items; the model lists them by ascending key.
RECURSIVE Reference_values(_, _)
Reference_values(m, K) ==
    IF K = {} THEN <<>> ELSE <<m[Min(K)]>> \o Reference_values(m, K \ {Min(K)})

Reference_iter(r) == Reference_values(r.map, DOMAIN r.map)

\* ------------------------------------------------------------ the caller
\* kind: the Pool implementation under test; pool: its state;
\* live: the caller's record id -> item of the ids allocate returned and
\* deallocate has not yet taken back (the map of test_many_items);
\* last: the last call, its argument or result and whether it panicked;
\* reference, allocations: the oracle pool and the id pairs of fuzz().
VARIABLES kind, pool, live, last, reference, allocations

vars == <<kind, pool, live, last, reference, allocations>>

\* Ids a caller passes: every slot index and one index beyond any storage.
Ids == 0..MaxCap

Call(op, id, item, fault) == [op |-> op, id |-> id, item |-> item, fault |-> fault]

Init ==
    /\ kind \in Kinds
    /\ live = EmptyMap
    /\ reference = Reference_new
    /\ allocations = <<>>
    /\ \/ /\ pool = Pool_new(kind)
          /\ last = Call("new", None, NoItem, FALSE)
       \/ \E c \in 0..MaxInitCap :
             /\ pool = Pool_with_capacity(kind, c)
             /\ last = Call("with_capacity", c, NoItem, FALSE)

\* A panic ends the program: no call follows it.
Running == ~last.fault

Allocate ==
    /\ Running
    /\ \E item \in Items, node \in NodeChoices(kind, pool) :
       \E r \in {Pool_allocate(kind, pool, item, node)} :
          /\ Capacity(kind, r.pool) <= MaxCap
          /\ pool' = r.pool
          /\ last' = Call("allocate", r.id, item, r.fault)
          /\ live' = IF r.fault THEN live ELSE Insert(live, r.id, item)
    /\ UNCHANGED <<kind, reference, allocations>>

Deallocate ==
    /\ Running
    /\ \E id \in Ids :
       \E r \in {Pool_deallocate(kind, pool, id)} :
          /\ pool' = r.pool
          /\ last' = Call("deallocate", id, NoItem, r.fault)
          /\ live' = IF r.fault THEN live ELSE Remove(live, id)
    /\ UNCHANGED <<kind, reference, allocations>>

Get ==
    /\ Running
    /\ \E id \in Ids :
       \E r \in {Pool_get(kind, pool, id)} :
          /\ last' = Call("get", id, r.ret, r.fault)
    /\ UNCHANGED <<kind, pool, live, reference, allocations>>

GetMut ==
    /\ Running
    /\ \E id \in Ids, value \in Items :
       \E r \in {Pool_get_mut(kind, pool, id, value)} :
          /\ pool' = r.pool
          /\ last' = Call("get_mut", id, value, r.fault)
          /\ live' = IF r.fault \/ id \notin DOMAIN live THEN live
                      ELSE Insert(live, id, value)
    /\ UNCHANGED <<kind, reference, allocations>>

Iter ==
    /\ Running
    /\ last' = Call("iter", None, NoItem, Pool_iter(kind, pool).fault)
    /\ UNCHANGED <<kind, pool, live, reference, allocations>>

Next == Allocate \/ Deallocate \/ Get \/ GetMut \/ Iter

Spec == Init /\ [][Next]_vars

\* ----------------------------------------------------- testing.rs: fuzz
MAX_NUM_ITEMS_TO_ALLOCATE == MaxFuzzItems

\* The addresses a Box of the reference pool can have.
RefAddrs == 1..(MAX_NUM_ITEMS_TO_ALLOCATE + 1)

PairOfIds(id_in_test, id_in_reference) ==
    [id_in_test |-> id_in_test, id_in_reference |-> id_in_reference]

\* Allocations::add: vec.push(ids); map, the inverse of vec, is left out
Allocations_add(vec, ids) == Append(vec, ids)

\* Allocations::remove: the last pair takes the place of the removed one
Allocations_remove(vec, removed_ids) ==
    LET index_of_removed_ids == (CHOOSE i \in 1..Len(vec) : vec[i] = removed_ids) - 1
        index_of_last_ids == Len(vec) - 1
        moved == IF index_of_removed_ids # index_of_last_ids
                 THEN [vec EXCEPT ![index_of_removed_ids + 1] = vec[index_of_last_ids + 1]]
                 ELSE vec
    IN SubSeq(moved, 1, Len(moved) - 1)

\* Vec::sort
RECURSIVE SortInsert(_, _)
SortInsert(sorted, x) ==
    IF sorted = <<>> THEN <<x>>
    ELSE IF x <= Head(sorted) THEN <<x>> \o sorted
    ELSE <<Head(sorted)>> \o SortInsert(Tail(sorted), x)

RECURSIVE Sort(_)
Sort(s) == IF s = <<>> THEN <<>> ELSE SortInsert(Sort(Tail(s)), Head(s))

\* compare_for_equality from the collection of the items on, with it what
\* test.iter() yields
compare_items(k, test, ref, vec, it) ==
    IF it.fault THEN "Panic"
    ELSE IF Sort(it.items) # Sort(Reference_iter(ref)) THEN "ItemsDontMatch"
    ELSE IF \E i \in 1..Len(vec) :
               \E t \in {Pool_get(k, test, vec[i].id_in_test)},
                  r \in {Reference_get(ref, vec[i].id_in_reference)} :
                  t.fault \/ r.fault
    THEN "Panic"
    ELSE IF \E i \in 1..Len(vec) :
               \E t \in {Pool_get(k, test, vec[i].id_in_test)},
                  r \in {Reference_get(ref, vec[i].id_in_reference)} :
                  t.ret # r.ret
    THEN "GetsDontMatch"
    ELSE "Ok"

\* compare_for_equality: "Ok", the EqualityError, or "Panic" when a call
\* made by the comparison panics
compare_for_equality(k, test, ref, vec) ==
    IF Pool_len(k, test) # Reference_len(ref) THEN "NumItemsDontMatch"
    ELSE compare_items(k, test, ref, vec, Pool_iter(k, test))

\* The step of fuzz() after a mutation: the panic of the mutation itself or
\* of a failed comparison.
Panics(fault, k, test, ref, vec) ==
    fault \/ compare_for_equality(k, test, ref, vec) # "Ok"

\* fuzz() up to its loop: a random construction of both pools
FuzzInit ==
    /\ kind \in Kinds
    /\ live = EmptyMap
    /\ allocations = <<>>
    /\ \/ /\ pool = Pool_new(kind)
          /\ reference = Reference_new
          /\ last = Call("new", None, NoItem,
                         Panics(FALSE, kind, pool, reference, <<>>))
       \/ \E capacity \in 0..MaxInitCap :
             /\ pool = Pool_with_capacity(kind, capacity)
             /\ reference = Reference_with_capacity(capacity)
             /\ last = Call("with_capacity", capacity, NoItem,
                            Panics(FALSE, kind, pool, reference, <<>>))

\* The SET arm of the loop, with the comparison that follows it.
FuzzSet ==
    /\ Running
    /\ Reference_len(reference) # 0
    /\ \E index \in 1..Len(allocations), value \in Items :
       \E pair \in {allocations[index]} :
       \E t \in {Pool_get_mut(kind, pool, pair.id_in_test, value)},
          r \in {Reference_get_mut(reference, pair.id_in_reference, value)} :
          /\ pool' = t.pool
          /\ reference' = IF t.fault THEN reference ELSE r.pool
          /\ last' = Call("set", pair.id_in_test, value,
                          Panics(t.fault \/ r.fault, kind, t.pool, r.pool, allocations))
    /\ UNCHANGED <<kind, live, allocations>>

\* The ALLOCATE arm of the loop, with the comparison that follows it.
FuzzAllocate ==
    /\ Running
    /\ ~(Reference_len(reference) >= MAX_NUM_ITEMS_TO_ALLOCATE)
    /\ \E item \in Items, node \in NodeChoices(kind, pool),
          address \in RefAddrs \ DOMAIN reference.map :
       \E t \in {Pool_allocate(kind, pool, item, node)},
          r \in {Reference_allocate(reference, item, address)} :
       \E added \in {Allocations_add(allocations, PairOfIds(t.id, r.id))} :
          /\ Capacity(kind, t.pool) <= MaxCap
          /\ pool' = t.pool
          /\ reference' = IF t.fault THEN reference ELSE r.pool
          /\ allocations' = IF t.fault THEN allocations ELSE added
          /\ last' = Call("allocate", t.id, item,
                          Panics(t.fault, kind, t.pool, r.pool, added))
    /\ UNCHANGED <<kind, live>>

\* The DEALLOCATE arm of the loop, with the comparison that follows it.
FuzzDeallocate ==
    /\ Running
    /\ Reference_len(reference) # 0
    /\ \E index \in 1..Len(allocations) :
       \E pair \in {allocations[index]} :
       \E t \in {Pool_deallocate(kind, pool, pair.id_in_test)},
          r \in {Reference_deallocate(reference, pair.id_in_reference)} :
       \E removed \in {Allocations_remove(allocations, pair)} :
          /\ pool' = t.pool
          /\ reference' = IF t.fault THEN reference ELSE r.pool
          /\ allocations' = IF t.fault \/ r.fault THEN allocations ELSE removed
          /\ last' = Call("deallocate", pair.id_in_test, NoItem,
                          Panics(t.fault \/ r.fault, kind, t.pool, r.pool, removed))
    /\ UNCHANGED <<kind, live>>

FuzzNext == FuzzSet \/ FuzzAllocate \/ FuzzDeallocate

SpecFuzz == FuzzInit /\ [][FuzzNext]_vars

\* ----------------------------------- hierarchical.rs driven on its own
\* In this specification pool holds a HierarchicalBitVec, live the caller's
\* record index -> value of the bits it has created and set, and last the
\* last call: its op, its index or bit count (or the index returned), the
\* bit value as 1 or 0, and whether it panicked.
BitItem(value) == IF value THEN 1 ELSE 0

\* The caller's record after add_bits(num_bits, value).
Extend(m, num_bits, value) ==
    [i \in 0..(Cardinality(DOMAIN m) + num_bits - 1) |->
        IF i \in DOMAIN m THEN m[i] ELSE value]

HierInit ==
    /\ kind = "HierarchicalBitVec"
    /\ reference = Reference_new
    /\ allocations = <<>>
    /\ \/ /\ pool = Hier_new
          /\ live = EmptyMap
          /\ last = Call("new", None, NoItem, FALSE)
       \/ \E num_bits \in 0..MaxBits, value \in BOOLEAN :
             /\ pool = Hier_with_bits(num_bits, value)
             /\ live = Extend(EmptyMap, num_bits, value)
             /\ last = Call("with_bits", num_bits, BitItem(value), FALSE)

HierSetBit ==
    /\ Running
    /\ \E idx \in 0..MaxBits, value \in BOOLEAN :
       \E ok \in {Hier_set_bit_ok(pool, idx)} :
          /\ pool' = IF ok THEN Hier_set_bit(pool, idx, value) ELSE pool
          /\ live' = IF ok THEN [live EXCEPT ![idx] = value] ELSE live
          /\ last' = Call("set_bit", idx, BitItem(value), ~ok)
    /\ UNCHANGED <<kind, reference, allocations>>

HierAddBits ==
    /\ Running
    /\ \E num_bits \in 0..(MaxBits - Hier_num_bits(pool)), value \in BOOLEAN :
       \E ok \in {Hier_add_bits_ok(pool, num_bits, value)} :
          /\ pool' = IF ok THEN Hier_add_bits(pool, num_bits, value) ELSE pool
          /\ live' = IF ok THEN Extend(live, num_bits, value) ELSE live
          /\ last' = Call("add_bits", num_bits, BitItem(value), ~ok)
    /\ UNCHANGED <<kind, reference, allocations>>

HierFindATrueBit ==
    /\ Running
    /\ \E ok \in {Hier_find_a_true_bit_ok(pool)} :
          last' = Call("find_a_true_bit",
                       IF ok THEN Hier_find_a_true_bit(pool) ELSE None, NoItem, ~ok)
    /\ UNCHANGED <<kind, pool, live, reference, allocations>>

\* A caller drains a fresh true_bits() iterator.
HierTrueBits ==
    /\ Running
    /\ last' = Call("true_bits", None, NoItem, Hier_true_bits(pool).fault)
    /\ UNCHANGED <<kind, pool, live, reference, allocations>>

HierNext == HierSetBit \/ HierAddBits \/ HierFindATrueBit \/ HierTrueBits

SpecHier == HierInit /\ [][HierNext]_vars

\* ------------------------------------------- bit.rs: a BitVec on its own
\* A caller drives one BitVec through its public functions; live is the
\* caller's record of the bits below num_bits.  A query leaves its result
\* in last: get_bit and find_a_true_bit in id, get_block in item.
SetAfter(m, bit) == [i \in DOMAIN m |-> IF i >= bit THEN TRUE ELSE m[i]]

BitInit ==
    /\ kind = "BitVec"
    /\ reference = Reference_new
    /\ allocations = <<>>
    /\ \/ /\ pool = BitVec_new
          /\ live = EmptyMap
          /\ last = Call("new", None, NoItem, FALSE)
       \/ \E num_bits \in 0..MaxBits, value \in BOOLEAN :
             /\ pool = BitVec_with_bits(num_bits, value)
             /\ live = Extend(EmptyMap, num_bits, value)
             /\ last = Call("with_bits", num_bits, BitItem(value), FALSE)

BitGetBit ==
    /\ Running
    /\ \E bit \in 0..MaxBits :
       \E ok \in {BitVec_bit_ok(pool, bit)} :
          last' = Call("get_bit", bit,
                       IF ok THEN BitItem(BitVec_get_bit(pool, bit)) ELSE NoItem, ~ok)
    /\ UNCHANGED <<kind, pool, live, reference, allocations>>

BitSetBit ==
    /\ Running
    /\ \E bit \in 0..MaxBits, value \in BOOLEAN :
       \E ok \in {BitVec_bit_ok(pool, bit)} :
          /\ pool' = IF ok THEN BitVec_set_bit(pool, bit, value) ELSE pool
          /\ live' = IF ok THEN [live EXCEPT ![bit] = value] ELSE live
          /\ last' = Call("set_bit", bit, BitItem(value), ~ok)
    /\ UNCHANGED <<kind, reference, allocations>>

BitSetBitAndAllBitsAfterItToTrue ==
    /\ Running
    /\ \E bit \in 0..MaxBits :
       \E ok \in {BitVec_bit_ok(pool, bit)} :
          /\ pool' = IF ok THEN BitVec_set_bit_and_all_bits_after_it_to_true(pool, bit)
                      ELSE pool
          /\ live' = IF ok THEN SetAfter(live, bit) ELSE live
          /\ last' = Call("set_bit_and_all_bits_after_it_to_true", bit, NoItem, ~ok)
    /\ UNCHANGED <<kind, reference, allocations>>

BitAddBits ==
    /\ Running
    /\ \E num_bits \in 0..(MaxBits - pool.num_bits), value \in BOOLEAN :
          /\ pool' = BitVec_add_bits(pool, num_bits, value)
          /\ live' = Extend(live, num_bits, value)
          /\ last' = Call("add_bits", num_bits, BitItem(value), FALSE)
    /\ UNCHANGED <<kind, reference, allocations>>

BitGetBlock ==
    /\ Running
    /\ \E idx_of_block \in 0..(MaxBits \div BITS_PER_BLOCK) :
       \E ok \in {BitVec_block_ok(pool, idx_of_block)} :
          last' = Call("get_block", idx_of_block,
                       IF ok THEN BitVec_get_block(pool, idx_of_block) ELSE NoItem, ~ok)
    /\ UNCHANGED <<kind, pool, live, reference, allocations>>

BitFindATrueBit ==
    /\ Running
    /\ last' = Call("find_a_true_bit", BitVec_find_a_true_bit(pool), NoItem, FALSE)
    /\ UNCHANGED <<kind, pool, live, reference, allocations>>

\* A caller drains a fresh true_bits() iterator; id is the number of bits
\* it yielded.
BitIterTrueBits ==
    /\ Running
    /\ last' = Call("true_bits", Len(BitVec_true_bits(pool)), NoItem, FALSE)
    /\ UNCHANGED <<kind, pool, live, reference, allocations>>

BitNext ==
    \/ BitGetBit \/ BitSetBit \/ BitSetBitAndAllBitsAfterItToTrue
    \/ BitAddBits \/ BitGetBlock \/ BitFindATrueBit \/ BitIterTrueBits

SpecBit == BitInit /\ [][BitNext]_vars

\* --------------------------------------------------------------- claims
LiveIds == DOMAIN live

Ascending(s) == \A i \in 1..(Len(s) - 1) : s[i] < s[i + 1]

NoRepeat(s) == \A i, j \in 1..Len(s) : i # j => s[i] # s[j]

Returned(op) == last.op = op /\ ~last.fault

\* C1: allocate returns an id that was not allocated immediately before the
\* call, for every pool kind, so no two live items ever share an id.
C1_AllocateReturnsFreshId ==
    [][(last'.op = "allocate" /\ ~last'.fault) => last'.id \notin DOMAIN live]_vars

\* An allocate that reuses the freed id 0 while two other ids are live.
C1_Witness ==
    /\ Returned("allocate")
    /\ last.id = 0
    /\ Cardinality(LiveIds) >= 3

\* C2: id = allocate(x) followed immediately by get(id) returns x.
C2_AllocateThenGet ==
    Returned("allocate") =>
        Pool_get(kind, pool, last.id) = [ret |-> last.item, fault |-> FALSE]

\* allocate(2) has just returned while another id holds item 1.
C2_Witness ==
    /\ Returned("allocate")
    /\ last.item = 2
    /\ \E id \in LiveIds : id # last.id /\ live[id] = 1

\* C3: get and get_mut panic for every id that is not currently allocated
\* (empty pool, beyond capacity, never allocated, just deallocated), and a
\* panicking get_mut writes nothing.
C3_GetOfUnallocatedFaults ==
    /\ \A id \in Ids \ LiveIds :
          /\ Pool_get(kind, pool, id).fault
          /\ \A value \in Items :
                /\ Pool_get_mut(kind, pool, id, value).fault
                /\ Pool_get_mut(kind, pool, id, value).pool = pool
    /\ (last.op \in {"get", "get_mut"} /\ last.id \notin LiveIds) => last.fault

\* get of an id inside the storage of a non-empty pool has just panicked.
C3_Witness ==
    /\ last.op = "get"
    /\ last.fault
    /\ last.id < Capacity(kind, pool)
    /\ LiveIds # {}

\* C4: deallocate of an id that is not currently allocated panics before
\* any pool state has been modified.
C4_BadDeallocateFaultsUnchanged ==
    /\ \A id \in Ids \ LiveIds :
          /\ Pool_deallocate(kind, pool, id).fault
          /\ Pool_deallocate(kind, pool, id).pool = pool
    /\ (last.op = "deallocate" /\ last.fault) => last.id \notin LiveIds

\* deallocate of a free slot of a non-empty pool has just panicked.
C4_Witness ==
    /\ last.op = "deallocate"
    /\ last.fault
    /\ last.id < Capacity(kind, pool)
    /\ LiveIds # {}

\* C5: driven in lockstep with the reference map model by fuzz(), every pool
\* kind agrees with it after the construction and after every mutation: the
\* same len(), the same multiset of items from iter(), and the same value
\* from get for every pair of ids still allocated; no call panics.
C5_AgreesWithReference ==
    /\ ~last.fault
    /\ compare_for_equality(kind, pool, reference, allocations) = "Ok"
    /\ Pool_len(kind, pool) = Len(allocations)

\* A set has just been compared with two pairs allocated, holding different
\* items, the test pool having reused a freed id.
C5_Witness ==
    /\ Returned("set")
    /\ Len(allocations) = 2
    /\ allocations[1].id_in_test > allocations[2].id_in_test
    /\ Pool_get(kind, pool, allocations[1].id_in_test).ret
         # Pool_get(kind, pool, allocations[2].id_in_test).ret

\* C6: len() is the number of currently allocated ids; allocate adds one,
\* deallocate takes one away, get, get_mut and iter leave it alone, and so
\* does the growth step inside allocate.
C6_LenCountsLive ==
    /\ [](Pool_len(kind, pool) = Cardinality(LiveIds))
    /\ [][~last'.fault =>
            Pool_len(kind, pool') =
                CASE last'.op = "allocate" -> Pool_len(kind, pool) + 1
                  [] last'.op = "deallocate" -> Pool_len(kind, pool) - 1
                  [] OTHER -> Pool_len(kind, pool)]_vars
    /\ [](kind \in FlagKinds =>
            FlagsBasedPool_expand_if_needed(FlagVecOf(kind), pool).num_items
                = pool.num_items)

\* A pool of capacity 4 holding 2 items after a deallocate.
C6_Witness ==
    /\ Returned("deallocate")
    /\ Capacity(kind, pool) = 4
    /\ Pool_len(kind, pool) = 2

\* C7: in a FlagsBasedPool, for every id below the capacity exactly one of
\* alloc[id] and free[id] is true.
C7_Complementarity ==
    kind \in FlagKinds =>
        \A id \in 0..(Len(pool.items) - 1) :
            /\ FlagVec_get_ok(FlagVecOf(kind), pool.alloc, id)
            /\ FlagVec_get_ok(FlagVecOf(kind), pool.free, id)
            /\ FlagVec_get_flag(FlagVecOf(kind), pool.alloc, id)
                 # FlagVec_get_flag(FlagVecOf(kind), pool.free, id)

\* Right after the growth from 2 to 4 slots of a hierarchical pool.
C7_Witness ==
    /\ kind = "HierarchicalFlags"
    /\ Returned("allocate")
    /\ Len(pool.items) = 4
    /\ pool.num_items = 3

\* C8: a fresh iter() yields each currently allocated item exactly once and
\* nothing else; the number of yielded items is len().
C8_IterYieldsLive ==
    LET it == Pool_iter(kind, pool) IN
    /\ ~it.fault
    /\ Len(it.ids) = Pool_len(kind, pool)
    /\ Len(it.items) = Len(it.ids)
    /\ NoRepeat(it.ids)
    /\ {it.ids[i] : i \in 1..Len(it.ids)} = LiveIds
    /\ \A i \in 1..Len(it.ids) : it.items[i] = live[it.ids[i]]

\* iter() on a pool with a free slot below a live one, two items live.
C8_Witness ==
    /\ last.op = "iter"
    /\ Cardinality(LiveIds) >= 2
    /\ \E id \in LiveIds : \E f \in 0..(id - 1) : f \notin LiveIds

\* C9: FlagsBasedPool.iter() yields the live items in strictly ascending id
\* order, for each of the three flag vectors.
C9_FlagsIterAscending ==
    kind \in FlagKinds => Ascending(Pool_iter(kind, pool).ids)

\* A hierarchical pool with live ids in both blocks of level 0.
C9_Witness ==
    /\ kind = "HierarchicalFlags"
    /\ last.op = "iter"
    /\ {0, 3} \subseteq LiveIds
    /\ Len(Pool_iter(kind, pool).ids) >= 2

\* C10, as stated: Stacks and NotSafe yield the live items in ascending id
\* order.
C10_PeersIterAscending ==
    kind \in {"Stacks", "NotSafe"} => Ascending(Pool_iter(kind, pool).ids)

\* The blocks in the order iter() visits them: alloc_blocks for Stacks, the
\* list from head for NotSafe.
RECURSIVE ListBlocks(_, _)
ListBlocks(heap, ptr) ==
    IF ptr = NULL THEN <<>> ELSE <<heap[ptr].block>> \o ListBlocks(heap, heap[ptr].next)

VisitOrder == IF kind = "Stacks" THEN pool.alloc_blocks ELSE ListBlocks(pool.heap, pool.head)

\* The ids of S in ascending order.
RECURSIVE SortedIds(_)
SortedIds(S) == IF S = {} THEN <<>> ELSE <<Min(S)>> \o SortedIds(S \ {Min(S)})

RECURSIVE ByBlock(_)
ByBlock(blocks) ==
    IF blocks = <<>> THEN <<>>
    ELSE SortedIds({id \in LiveIds : id \div FLAGS_PER_BLOCK = Head(blocks)})
         \o ByBlock(Tail(blocks))

\* C10, amended: Stacks and NotSafe yield the live items block by block, in
\* ascending id order inside a block; the blocks come in the order of
\* alloc_blocks (Stacks) or of the linked list from head (NotSafe), which
\* names every non-empty block once and need not be ascending.
C10_PeersIterByBlock ==
    kind \in {"Stacks", "NotSafe"} =>
        /\ Pool_iter(kind, pool).ids = ByBlock(VisitOrder)
        /\ NoRepeat(VisitOrder)
        /\ {VisitOrder[i] : i \in 1..Len(VisitOrder)}
             = {id \div FLAGS_PER_BLOCK : id \in LiveIds}

\* iter() on a pool whose visit order is not ascending, with a full block.
C10_Witness ==
    /\ kind \in {"Stacks", "NotSafe"}
    /\ last.op = "iter"
    /\ ~Ascending(VisitOrder)
    /\ Cardinality(LiveIds) >= 3

\* C11: an allocate (growing or not) and a deallocate(j) leave get(i) as it
\* was for every other allocated id i: no live item moves to another id.
C11_IdStability ==
    [][(last'.op \in {"allocate", "deallocate"} /\ ~last'.fault) =>
          \A i \in DOMAIN live \ {last'.id} :
              /\ Pool_get(kind, pool, i) = [ret |-> live[i], fault |-> FALSE]
              /\ Pool_get(kind, pool', i) = Pool_get(kind, pool, i)]_vars

\* The allocate that grew a FreeList from 2 to 4 slots has returned id 2
\* while ids 0 and 1 hold different items.
C11_Witness ==
    /\ kind = "FreeList"
    /\ Returned("allocate")
    /\ last.id = 2
    /\ Capacity(kind, pool) = 4
    /\ LiveIds = {0, 1, 2}
    /\ live[0] # live[1]
    /\ pool.slots[4] = SlotFree(None)

\* What expand_if_needed makes of a pool state whose growth test is given by
\* full: capacity 0 -> 1 or doubled, false appended to alloc, true to free,
\* empty slots to items, nothing below the old capacity changed; the pool
\* untouched when not full.
GrowthAsSpecified(U, p, full) ==
    LET e == FlagsBasedPool_expand_if_needed(U, p)
        old == Len(p.items)
        new == Len(e.items)
    IN /\ ~full => e = p
       /\ full =>
            /\ new = IF old = 0 THEN 1 ELSE 2 * old
            /\ FlagVec_num_flags(U, e.alloc) = new
            /\ FlagVec_num_flags(U, e.free) = new
            /\ e.num_items = p.num_items
            /\ \A i \in 0..(old - 1) :
                  /\ FlagVec_get_flag(U, e.alloc, i) = FlagVec_get_flag(U, p.alloc, i)
                  /\ FlagVec_get_flag(U, e.free, i) = FlagVec_get_flag(U, p.free, i)
                  /\ e.items[i + 1] = p.items[i + 1]
            /\ \A i \in old..(new - 1) :
                  /\ FlagVec_get_ok(U, e.alloc, i) /\ FlagVec_get_ok(U, e.free, i)
                  /\ FlagVec_get_flag(U, e.alloc, i) = FALSE
                  /\ FlagVec_get_flag(U, e.free, i) = TRUE
                  /\ e.items[i + 1] = NoItem

\* The slot storage allocate leaves is the one its expand_if_needed made.
AllocateGrowsByExpand ==
    [][(kind \in FlagKinds /\ last'.op = "allocate" /\ ~last'.fault) =>
          Len(pool'.items)
              = Len(FlagsBasedPool_expand_if_needed(FlagVecOf(kind), pool).items)]_vars

\* C12, as stated: FlagsBasedPool.allocate grows exactly when
\* free.find_a_true_flag() is none, from 0 to 1 or by doubling, appending
\* false to alloc, true to free and empty slots, and leaves the capacity
\* alone when it is not none.
C12_GrowsWhenFindIsNone ==
    /\ [](kind \in FlagKinds =>
            GrowthAsSpecified(FlagVecOf(kind), pool,
                FlagVec_find_a_true_flag(FlagVecOf(kind), pool.free) = None))
    /\ AllocateGrowsByExpand

\* The capacity after allocate, for the growth that starts an empty storage
\* with unit slots and doubles a full one.
GrowsBy(unit) ==
    \A item \in Items, node \in NodeChoices(kind, pool) :
       \E r \in {Pool_allocate(kind, pool, item, node)} :
          /\ ~r.fault
          /\ Capacity(kind, r.pool) =
                IF Pool_len(kind, pool) < Capacity(kind, pool) THEN Capacity(kind, pool)
                ELSE IF Capacity(kind, pool) = 0 THEN unit
                ELSE 2 * Capacity(kind, pool)

CreatedEmpty == last.op = "new" => Capacity(kind, pool) = 0

\* C13, as stated: every pool kind starts from new() with capacity 0, grows
\* to exactly 1 slot on its first allocation and doubles the capacity on
\* each later exhaustion.
C13_SameGrowthPolicy == CreatedEmpty /\ GrowsBy(1)

\* C13, amended: every pool kind starts from new() with capacity 0 and
\* doubles a full storage; the first allocation grows the storage to 1 slot
\* in FlagsBasedPool, Simple and FreeList, and to one block of
\* FLAGS_PER_BLOCK slots in Stacks and NotSafe.
C13_GrowthPolicyByBlock ==
    /\ CreatedEmpty
    /\ GrowsBy(IF kind \in {"Stacks", "NotSafe"} THEN FLAGS_PER_BLOCK ELSE 1)

\* A block pool of two blocks is full after an allocate: the next allocate
\* doubles it.
C13_Witness ==
    /\ kind \in {"Stacks", "NotSafe"}
    /\ Returned("allocate")
    /\ Capacity(kind, pool) = 2 * FLAGS_PER_BLOCK
    /\ Pool_len(kind, pool) = Capacity(kind, pool)

\* C14: along any sequence of operations the capacity never decreases, and
\* len() decreases only as the effect of a deallocate that returned.
C14_Monotonic ==
    [][/\ Capacity(kind, pool') >= Capacity(kind, pool)
       /\ Pool_len(kind, pool') < Pool_len(kind, pool) =>
             /\ last'.op = "deallocate"
             /\ ~last'.fault
             /\ Pool_len(kind, pool') = Pool_len(kind, pool) - 1]_vars

\* The deallocate that emptied a pool of 4 slots has returned.
C14_Witness ==
    /\ Returned("deallocate")
    /\ Pool_len(kind, pool) = 0
    /\ Capacity(kind, pool) = 4
    /\ last.id = 3

\* The ids returned by allocate called again and again from pool state p,
\* up to the call that panics or enlarges the storage; n bounds the calls.
RECURSIVE AllocatedBeforeGrowth(_, _, _)
AllocatedBeforeGrowth(k, p, n) ==
    IF n = 0 THEN {}
    ELSE LET r == Pool_allocate(k, p, CHOOSE item \in Items : TRUE,
                                CHOOSE node \in NodeChoices(k, p) : TRUE)
         IN IF r.fault \/ Capacity(k, r.pool) # Capacity(k, p) THEN {}
            ELSE {r.id} \cup AllocatedBeforeGrowth(k, r.pool, n - 1)

\* C15: slot storage is enlarged only when every slot is occupied, so every
\* id that is free (deallocated or never used) is returned by some allocate
\* before the capacity increases.
C15_ReuseBeforeGrowth ==
    /\ [][Capacity(kind, pool') # Capacity(kind, pool) =>
             Pool_len(kind, pool) = Capacity(kind, pool)]_vars
    /\ [](AllocatedBeforeGrowth(kind, pool, Capacity(kind, pool) + 1)
             = (0..(Capacity(kind, pool) - 1)) \ LiveIds)

\* deallocate(1) has returned in a pool of 4 slots with two slots free.
C15_Witness ==
    /\ Returned("deallocate")
    /\ last.id = 1
    /\ Capacity(kind, pool) = 4
    /\ Pool_len(kind, pool) = 2

\* n calls of allocate from pool state p: the ids they return, the pool
\* they leave, and whether one of them panicked.
RECURSIVE AllocateTimes(_, _, _)
AllocateTimes(k, p, n) ==
    IF n = 0 THEN [pool |-> p, ids |-> <<>>, fault |-> FALSE]
    ELSE LET r == Pool_allocate(k, p, CHOOSE item \in Items : TRUE,
                                CHOOSE node \in NodeChoices(k, p) : TRUE)
         IN IF r.fault THEN [pool |-> r.pool, ids |-> <<>>, fault |-> TRUE]
            ELSE LET rest == AllocateTimes(k, r.pool, n - 1)
                 IN [pool |-> rest.pool, ids |-> <<r.id>> \o rest.ids,
                     fault |-> rest.fault]

\* C16: with_capacity(n) yields a pool with len() = 0 and an empty
\* iteration whose first n allocations return n distinct ids below n
\* without growing the slot storage; with_capacity(0) is new().
C16_WithCapacity ==
    last.op = "with_capacity" =>
        LET n == last.id
            a == AllocateTimes(kind, pool, n)
        IN /\ Pool_len(kind, pool) = 0
           /\ Pool_iter(kind, pool) = [ids |-> <<>>, items |-> <<>>, fault |-> FALSE]
           /\ Capacity(kind, pool) >= n
           /\ ~a.fault
           /\ Capacity(kind, a.pool) = Capacity(kind, pool)
           /\ Len(a.ids) = n
           /\ NoRepeat(a.ids)
           /\ \A i \in 1..n : a.ids[i] \in 0..(n - 1)
           /\ n = 0 => pool = Pool_new(kind)

\* A NotSafe pool built by with_capacity(3).
C16_Witness ==
    /\ last.op = "with_capacity"
    /\ last.id = 3
    /\ kind = "NotSafe"

\* The levels of the vector under SpecHier, and W.
Levels == pool.levels

W == BITS_PER_BLOCK

\* C17: in a HierarchicalBitVec, after with_bits and after every set_bit and
\* add_bits, for every level k > 0 and every index i below that level's bit
\* count, bit i of level k is true iff the masked word i of level k-1 is
\* non-zero; add_bits does not panic.
C17_HierarchyConsistent ==
    /\ last.op = "add_bits" => ~last.fault
    /\ \A k \in 1..(Len(Levels) - 1) :
          \A i \in 0..(Levels[k + 1].num_bits - 1) :
             /\ BitVec_bit_ok(Levels[k + 1], i)
             /\ i < Len(Levels[k].flags)
             /\ BitVec_get_bit(Levels[k + 1], i) = (BitVec_get_block(Levels[k], i) # 0)

\* add_bits of false bits has returned on a vector of three levels holding
\* true and false bits.
C17_Witness ==
    /\ Returned("add_bits")
    /\ last.item = 0
    /\ last.id >= 2
    /\ Len(Levels) = 3
    /\ \E i, j \in DOMAIN live : live[i] /\ ~live[j] /\ i < j

\* The number of bits the vector holds, by the caller's count.
NumBits == Cardinality(DOMAIN live)

\* C18: every non-empty HierarchicalBitVec has a topmost level stored in
\* exactly one word, of at most W bits, after construction and after any
\* set_bit / add_bits, also when one add_bits needs several new levels, and
\* the final assertion of add_bits never fails; an empty vector has no level.
C18_TopIsOneWord ==
    /\ last.op = "add_bits" => ~last.fault
    /\ NumBits = Hier_num_bits(pool)
    /\ (NumBits > 0) = (Len(Levels) > 0)
    /\ Len(Levels) > 0 =>
          /\ Len(Levels[Len(Levels)].flags) = 1
          /\ Levels[Len(Levels)].num_bits \in 1..W

\* add_bits has returned after adding all but one of the bits of a vector
\* of three levels: the call pushed two new top levels.
C18_Witness ==
    /\ Returned("add_bits")
    /\ Len(Levels) = 3
    /\ last.id = NumBits - 1

\* C19: in a HierarchicalBitVec holding n > 0 bits, level k holds exactly
\* ceil(n / W^k) bits, for every level k, after with_bits and after any
\* sequence of add_bits of arbitrary sizes.
C19_LevelsAreMinimal ==
    \A k \in 0..(Len(Levels) - 1) :
        Levels[k + 1].num_bits = ((NumBits - 1) \div (W^k)) + 1

\* add_bits(3) has returned on a vector that now holds 7 bits.
C19_Witness ==
    /\ Returned("add_bits")
    /\ last.id = 3
    /\ NumBits = 7
    /\ Len(Levels) = 3

\* The true level-0 bits of the vector.
TrueBits == {i \in 0..(NumBits - 1) : Hier_get_bit(pool, i)}

\* C20: find_a_true_bit returns none iff no level-0 bit below n is true
\* (also on the empty vector); otherwise it returns the lowest index below
\* n whose level-0 bit is true.  It does not panic.
C20_FindsLowestTrueBit ==
    /\ TrueBits = {i \in DOMAIN live : live[i]}
    /\ Hier_find_a_true_bit_ok(pool)
    /\ Hier_find_a_true_bit(pool) = IF TrueBits = {} THEN None ELSE Min(TrueBits)
    /\ last.op = "find_a_true_bit" =>
          /\ ~last.fault
          /\ last.id = IF TrueBits = {} THEN None ELSE Min(TrueBits)

\* find_a_true_bit has returned an index of the last level-0 word of a
\* vector of three levels that also has a later true bit.
C20_Witness ==
    /\ Returned("find_a_true_bit")
    /\ Len(Levels) = 3
    /\ last.id = 6
    /\ TrueBits = {6, 7}

\* C21: on every vector reached by with_bits, set_bit and add_bits,
\* true_bits yields exactly the indices below n whose level-0 bit is true,
\* each once and in strictly ascending order, without panicking; every word
\* it reads below the top level has a true parent bit.
C21_TrueBitsIterates ==
    /\ TrueBits = {i \in DOMAIN live : live[i]}
    /\ ~Hier_true_bits(pool).fault
    /\ Hier_true_bits(pool).ids = SortedIds(TrueBits)
    /\ \A v \in Hier_visits(Levels, Hier_iter_new(pool)) :
          v[1] < Len(Levels) - 1 =>
             /\ BitVec_bit_ok(Levels[v[1] + 2], v[2])
             /\ BitVec_get_bit(Levels[v[1] + 2], v[2])
    /\ last.op = "true_bits" => ~last.fault

\* true_bits has been drained on a vector of three levels whose true bits
\* lie in the first and the last level-0 word, with an all-false word
\* between them.
C21_Witness ==
    /\ Returned("true_bits")
    /\ Len(Levels) = 3
    /\ TrueBits = {1, 6}
    /\ Hier_true_bits(pool).ids = <<1, 6>>
    /\ <<0, 1>> \notin Hier_visits(Levels, Hier_iter_new(pool))
\* The bits of the BitVec under SpecBit that are true, by the caller's record.
BitTrueBits == {i \in DOMAIN live : live[i]}

\* C22: BitVec.find_a_true_bit returns the lowest index below n whose bit is
\* true and none when no bit below n is true, on every vector reached by
\* with_bits, set_bit, add_bits and set_bit_and_all_bits_after_it_to_true; it
\* never returns an index at or beyond n.
C22_BitFindsLowestTrueBit ==
    /\ BitVec_find_a_true_bit(pool) < pool.num_bits
    /\ BitVec_find_a_true_bit(pool) =
          IF BitTrueBits = {} THEN None ELSE Min(BitTrueBits)
    /\ last.op = "find_a_true_bit" =>
          last.id = IF BitTrueBits = {} THEN None ELSE Min(BitTrueBits)
\* C23: add_bits(k, v) on a BitVec of n bits leaves the bits below n and
\* the words before the last one unchanged, makes the bits n..n+k-1 equal to
\* v, sets the bit count to n+k and leaves exactly ceil((n+k)/W) words, for
\* every n and k, zero and multiples of W included.
C23_BitAddBits ==
    [][last'.op = "add_bits" =>
          /\ ~last'.fault
          /\ pool'.num_bits = pool.num_bits + last'.id
          /\ Len(pool'.flags) = (pool'.num_bits + BITS_PER_BLOCK - 1) \div BITS_PER_BLOCK
          /\ \A i \in 0..(pool.num_bits - 1) :
                BitVec_get_bit(pool', i) = BitVec_get_bit(pool, i)
          /\ \A i \in pool.num_bits..(pool'.num_bits - 1) :
                /\ BitVec_bit_ok(pool', i)
                /\ BitItem(BitVec_get_bit(pool', i)) = last'.item
          /\ \A b \in 1..(Len(pool.flags) - 1) : pool'.flags[b] = pool.flags[b]]_vars

\* add_bits(4, false) has returned on a vector that held one true bit: it
\* cleared the free bit of the last word and allocated two words.
C23_Witness ==
    /\ kind = "BitVec"
    /\ Returned("add_bits")
    /\ last.id = 4
    /\ last.item = 0
    /\ pool.num_bits = 5
    /\ Len(pool.flags) = 3
    /\ BitTrueBits = {0}
\* C24: BitVec.get_block(w) returns a word whose bit j is set iff w*W+j < n
\* and bit w*W+j of the vector is true: storage bits at positions >= n are
\* masked to zero, whatever with_bits(true), add_bits and
\* set_bit_and_all_bits_after_it_to_true left in them.
C24_GetBlockMasks ==
    /\ \A w \in 0..(Len(pool.flags) - 1) : \A j \in 0..(BITS_PER_BLOCK - 1) :
          TestBit(BitVec_get_block(pool, w), j) =
             (/\ w * BITS_PER_BLOCK + j < pool.num_bits
              /\ BitVec_get_bit(pool, w * BITS_PER_BLOCK + j)
              /\ live[w * BITS_PER_BLOCK + j])
    /\ Returned("get_block") =>
          last.item = IF Len(pool.flags) = 0 THEN 0
                      ELSE BitVec_get_block(pool, last.id)

\* get_block has returned the last word of a vector of three bits with its
\* one bit below n, while the stored word also has the bit at position n set.
C24_Witness ==
    /\ kind = "BitVec"
    /\ Returned("get_block")
    /\ pool.num_bits = 3
    /\ last.id = 1
    /\ last.item = 1
    /\ pool.flags[2] = 3
    /\ BitTrueBits = {2}
\* C25: BitVec.get_bit(i) and set_bit(i, v) panic for every i >= n, also
\* when i falls inside the allocated last word, and set_bit then leaves the
\* vector as it was; for i < n, set_bit(i, v) makes get_bit(i) = v and
\* leaves every other bit below n unchanged.
C25_BitIndexChecked ==
    [][/\ last'.op = "get_bit" =>
             /\ last'.fault = (last'.id >= pool.num_bits)
             /\ ~last'.fault => last'.item = BitItem(BitVec_get_bit(pool, last'.id))
       /\ last'.op = "set_bit" =>
             IF last'.id >= pool.num_bits
             THEN last'.fault /\ pool' = pool
             ELSE /\ ~last'.fault
                  /\ pool'.num_bits = pool.num_bits
                  /\ BitVec_bit_ok(pool', last'.id)
                  /\ BitItem(BitVec_get_bit(pool', last'.id)) = last'.item
                  /\ \A i \in (0..(pool.num_bits - 1)) \ {last'.id} :
                        BitVec_get_bit(pool', i) = BitVec_get_bit(pool, i)]_vars

\* set_bit(n, true) has panicked on a vector of n = 3 bits whose last word
\* has room for bit 3; that storage bit is still clear.
C25_Witness ==
    /\ kind = "BitVec"
    /\ last.op = "set_bit"
    /\ last.fault
    /\ last.item = 1
    /\ last.id = 3
    /\ pool.num_bits = 3
    /\ pool.flags[2] < 2
\* The (id, item) pairs get() returns without panicking on pool p.
LivePairs(k, p) ==
    {<<id, Pool_get(k, p, id).ret>> :
        id \in {i \in 0..Capacity(k, p) : ~Pool_get(k, p, i).fault}}

\* The items iter() yields, with their ids.
IterPairs(k, p) ==
    {<<Pool_iter(k, p).ids[i], Pool_iter(k, p).items[i]>> :
        i \in 1..Len(Pool_iter(k, p).ids)}

\* a is what allocate(item) returned on pool p and d what deallocate(a.id)
\* returned next: len() and the live pairs of p are back.
Inverse(k, p, item, a, d) ==
    /\ ~a.fault
    /\ Pool_len(k, a.pool) = Pool_len(k, p) + 1
    /\ LivePairs(k, a.pool) = LivePairs(k, p) \cup {<<a.id, item>>}
    /\ IterPairs(k, a.pool) = LivePairs(k, a.pool)
    /\ Len(Pool_iter(k, a.pool).items) = Pool_len(k, a.pool)
    /\ Pool_len(k, p) = 0 => Pool_iter(k, a.pool).items = <<item>>
    /\ ~d.fault
    /\ Pool_len(k, d.pool) = Pool_len(k, p)
    /\ LivePairs(k, d.pool) = LivePairs(k, p)
    /\ IterPairs(k, d.pool) = LivePairs(k, p)
    /\ Len(Pool_iter(k, d.pool).items) = Pool_len(k, p)
    /\ ~Pool_iter(k, d.pool).fault

AllocateThenDeallocate(k, p, item, a) ==
    Inverse(k, p, item, a,
            IF a.fault THEN [pool |-> a.pool, fault |-> TRUE]
            ELSE Pool_deallocate(k, a.pool, a.id))

\* C26: for every pool kind and every reachable pool, id = allocate(x)
\* followed by deallocate(id) restores len() and the set of live (id, item)
\* pairs; on an empty pool the allocate gives len() = 1 and an iteration of
\* exactly x, and the deallocate gives len() = 0 and an empty iteration.
C26_AllocateDeallocateInverse ==
    /\ LivePairs(kind, pool) = {<<id, live[id]>> : id \in DOMAIN live}
    /\ Running =>
          \A item \in Items, node \in NodeChoices(kind, pool) :
             AllocateThenDeallocate(kind, pool, item,
                                    Pool_allocate(kind, pool, item, node))

\* deallocate has just freed an id below a live one, two items stay live,
\* and allocate would hand out the freed id again.
C26_Witness ==
    /\ Returned("deallocate")
    /\ Cardinality(LiveIds) = 2
    /\ \A item \in Items, node \in NodeChoices(kind, pool) :
          Pool_allocate(kind, pool, item, node).id = last.id
    /\ \E id \in LiveIds : id > last.id
\* The caller's record of the live (id, item) pairs.
Recorded == {<<id, live[id]>> : id \in DOMAIN live}

\* C27: a write through get_mut(id) on a live id is what get(id) and iter()
\* return from then on, until id is deallocated or written again; the write
\* changes neither len(), nor the set of allocated ids, nor the item of any
\* other id.
C27_GetMutFrame ==
    /\ [](/\ LivePairs(kind, pool) = Recorded
          /\ IterPairs(kind, pool) = Recorded)
    /\ [][/\ (last'.op = "get_mut" /\ ~last'.fault) =>
               /\ last'.id \in DOMAIN live
               /\ Pool_len(kind, pool') = Pool_len(kind, pool)
               /\ Pool_get(kind, pool', last'.id) = [ret |-> last'.item, fault |-> FALSE]
               /\ {q[1] : q \in LivePairs(kind, pool')} = {q[1] : q \in LivePairs(kind, pool)}
               /\ \A q \in LivePairs(kind, pool) :
                     (q[1] # last'.id) => (q \in LivePairs(kind, pool'))
          /\ (last'.op \in {"get", "iter", "allocate"} /\ ~last'.fault) =>
               \A id \in DOMAIN live : live'[id] = live[id]
          /\ (last'.op = "deallocate" /\ ~last'.fault) =>
               \A id \in (DOMAIN live) \ {last'.id} : live'[id] = live[id]
          /\ (last'.op = "get" /\ ~last'.fault) => last'.item = live[last'.id]]_vars

\* get_mut(0) has written item 2 in a hierarchical-flags pool whose id 1
\* holds the other item, with a free slot behind them.
C27_Witness ==
    /\ Returned("get_mut")
    /\ kind = "HierarchicalFlags"
    /\ Capacity(kind, pool) = 4
    /\ last.id = 0
    /\ last.item = 2
    /\ Recorded = {<<0, 2>>, <<1, 1>>}
\* Vectors h and g have the same number of levels, the same bit count at
\* each level and the same bit values below those counts.
SameLogical(h, g) ==
    /\ Len(h.levels) = Len(g.levels)
    /\ \A k \in 1..Len(h.levels) :
          /\ h.levels[k].num_bits = g.levels[k].num_bits
          /\ \A i \in 0..(h.levels[k].num_bits - 1) :
                /\ BitVec_bit_ok(h.levels[k], i)
                /\ BitVec_bit_ok(g.levels[k], i)
                /\ BitVec_get_bit(h.levels[k], i) = BitVec_get_bit(g.levels[k], i)

\* C28: with_bits(a, v) followed by add_bits(b, v), and add_bits(b, v) on an
\* empty vector, yields the same number of levels, the same per-level bit
\* counts and the same bit values as with_bits(a+b, v).  In particular
\* add_bits(W+1, true) on an empty vector gives exactly 2 levels of W+1 and 2
\* bits and find_a_true_bit then returns 0 (40 bits at W = 32 in the source;
\* the model's words are BlockWidth bits wide).
C28_AddBitsLikeWithBits ==
    [][(/\ last.op \in {"new", "with_bits"}
        /\ last'.op = "add_bits"
        /\ Hier_num_bits(pool) = 0 \/ last'.item = last.item) =>
          /\ ~last'.fault
          /\ SameLogical(pool', Hier_with_bits(Hier_num_bits(pool) + last'.id,
                                               last'.item = 1))
          /\ (Hier_num_bits(pool) = 0 /\ last'.id = W + 1 /\ last'.item = 1) =>
                /\ Len(pool'.levels) = 2
                /\ pool'.levels[1].num_bits = W + 1
                /\ pool'.levels[2].num_bits = 2
                /\ Hier_find_a_true_bit_ok(pool')
                /\ Hier_find_a_true_bit(pool') = 0]_vars

\* add_bits(3, true) has returned and the vector holds 3 bits, so it was
\* empty before the call; it has two levels of 3 and 2 bits.
C28_Witness ==
    /\ kind = "HierarchicalBitVec"
    /\ Returned("add_bits")
    /\ last.id = 3
    /\ last.item = 1
    /\ NumBits = 3
    /\ Len(Levels) = 2
    /\ Levels[2].num_bits = 2
    /\ Hier_find_a_true_bit(pool) = 0
\* Storage bit number b of level k (counted from 0) of vector h.
StoredBit(h, k, b) ==
    TestBit(h.levels[k + 1].flags[(b \div BITS_PER_BLOCK) + 1], b % BITS_PER_BLOCK)

\* C29: set_bit(i, v) changes only level-0 bit i and, at each level k > 0,
\* at most the ancestor bit floor(i / W^k); every other bit of every level,
\* every level's bit count and the number of levels are unchanged.  Each
\* ancestor bit ends up true iff the word below it holds a true bit, so
\* clearing the last true bit of a group turns its parent false and setting
\* a bit in an all-false group turns its parent true.
C29_SetBitFrame ==
    [][(last'.op = "set_bit" /\ ~last'.fault) =>
          /\ Len(pool'.levels) = Len(pool.levels)
          /\ Hier_get_bit(pool', last'.id) = (last'.item = 1)
          /\ \A k \in 0..(Len(pool.levels) - 1) :
                /\ pool'.levels[k + 1].num_bits = pool.levels[k + 1].num_bits
                /\ Len(pool'.levels[k + 1].flags) = Len(pool.levels[k + 1].flags)
                /\ \A b \in 0..(Len(pool.levels[k + 1].flags) * BITS_PER_BLOCK - 1) :
                      b # last'.id \div (W^k) =>
                         StoredBit(pool', k, b) = StoredBit(pool, k, b)
                /\ k > 0 =>
                      StoredBit(pool', k, last'.id \div (W^k)) =
                         (BitVec_get_block(pool'.levels[k], last'.id \div (W^k)) # 0)]_vars

\* set_bit(5, false) has cleared the only true bit of a vector of three
\* levels: its ancestors at levels 1 and 2 are false again.
C29_Witness ==
    /\ kind = "HierarchicalBitVec"
    /\ Returned("set_bit")
    /\ last.id = 5
    /\ last.item = 0
    /\ NumBits = 8
    /\ Len(Levels) = 3
    /\ TrueBits = {}
    /\ \A k \in 1..2 : BitVec_get_block(Levels[k + 1], 0) = 0
\* C30: along any sequence of set_bit and add_bits the number of levels and
\* the bit count of each existing level never decrease, and add_bits does
\* not panic and changes no level-0 bit below the old bit count.
C30_LevelsNeverShrink ==
    [][/\ Len(pool'.levels) >= Len(pool.levels)
       /\ \A k \in 1..Len(pool.levels) :
             /\ pool'.levels[k].num_bits >= pool.levels[k].num_bits
             /\ Len(pool'.levels[k].flags) >= Len(pool.levels[k].flags)
       /\ last'.op = "add_bits" =>
             /\ ~last'.fault
             /\ Hier_num_bits(pool') = Hier_num_bits(pool) + last'.id
             /\ \A i \in 0..(Hier_num_bits(pool) - 1) :
                   Hier_get_bit(pool', i) = Hier_get_bit(pool, i)]_vars

\* add_bits(4, true) has returned on a vector that held four bits in two
\* levels, the false bits 1 and 3 among them; it now has three levels.
C30_Witness ==
    /\ kind = "HierarchicalBitVec"
    /\ Returned("add_bits")
    /\ last.id = 4
    /\ last.item = 1
    /\ NumBits = 8
    /\ Len(Levels) = 3
    /\ TrueBits = {0, 2, 4, 5, 6, 7}
\* C31: on every BitVec, true_bits yields exactly the indices below n whose
\* bit is true, each once and in strictly ascending order; this holds in
\* every state, so also for a traversal started after earlier ones and
\* after the contents changed.
C31_BitTrueBitsIterates ==
    /\ BitVec_true_bits(pool) = SortedIds(BitTrueBits)
    /\ Ascending(BitVec_true_bits(pool))
    /\ \A i \in 0..(pool.num_bits - 1) : BitVec_get_bit(pool, i) = live[i]
    /\ last.op = "true_bits" => last.id = Cardinality(BitTrueBits)

\* A traversal has yielded bits 0 and 3 of a vector of three words whose
\* last word holds one bit of the vector and a set storage bit beyond it.
C31_Witness ==
    /\ kind = "BitVec"
    /\ Returned("true_bits")
    /\ pool.num_bits = 5
    /\ BitVec_true_bits(pool) = <<0, 3>>
    /\ pool.flags[3] = 2
\* The iterator the structure in pool hands out, by the type that
\* implements it, and the structure it borrows.
IterType == IF kind \in FlagKinds THEN FlagVecOf(kind) ELSE kind

IterOver == IF kind \in FlagKinds THEN pool.alloc ELSE pool

\* The iterator as its constructor leaves it.
IterNew(T, c) ==
    CASE T \in {"BoolVec", "BitVec", "Simple", "FreeList"} -> 0
      [] T = "HierarchicalBitVec" -> Hier_iter_new(c)
      [] T = "Stacks" -> Stacks_iter_new
      [] T = "NotSafe" -> NotSafe_iter_new(c).it

\* One call of next() on iterator state it: [ret, it, fault]
IterNext(T, c, it) ==
    CASE T = "BoolVec" ->
            [ret |-> BoolVec_iter_next(c, it).ret,
             it |-> BoolVec_iter_next(c, it).curr_bit, fault |-> FALSE]
      [] T = "BitVec" ->
            [ret |-> BitVec_iter_next(c, it).ret,
             it |-> BitVec_iter_next(c, it).bit, fault |-> FALSE]
      [] T = "HierarchicalBitVec" -> Hier_iter_next(c.levels, it)
      [] T = "Simple" ->
            [ret |-> Simple_iter_next(c.items, it).ret,
             it |-> Simple_iter_next(c.items, it).pos, fault |-> FALSE]
      [] T = "FreeList" ->
            [ret |-> FreeList_iter_next(c.slots, it).ret,
             it |-> FreeList_iter_next(c.slots, it).pos, fault |-> FALSE]
      [] T = "Stacks" -> Stacks_iter_next(c, it)
      [] T = "NotSafe" -> NotSafe_iter_next(c, it)

\* next() called on it until it returns None or panics: the iterator then,
\* and the number of calls made.
RECURSIVE RunOut(_, _, _, _)
RunOut(T, c, r, calls) ==
    IF r.fault \/ r.ret = None THEN [it |-> r.it, calls |-> calls, fault |-> r.fault]
    ELSE RunOut(T, c, IterNext(T, c, r.it), calls + 1)

\* The flags or slots the iterator ranges over.
IterSize(T, c) ==
    CASE T = "BoolVec" -> Len(c.flags)
      [] T = "BitVec" -> c.num_bits
      [] T = "HierarchicalBitVec" -> Hier_num_bits(c)
      [] T = "FreeList" -> Len(c.slots)
      [] OTHER -> Len(c.items)

\* e is a fresh iterator run to its first None.
Finite(T, c, e) ==
    /\ ~e.fault
    /\ e.calls <= IterSize(T, c) + 1
    /\ IterNext(T, c, e.it) = [ret |-> None, it |-> e.it, fault |-> FALSE]
    /\ T = "HierarchicalBitVec" => e.it.stack = <<>> /\ e.it.flags = 0

\* C32: every iterator is finite: a fresh true-flag iterator of a BoolVec,
\* BitVec or HierarchicalBitVec and a fresh iterator of any pool returns
\* None after at most size + 1 calls of next(), without panicking, and a
\* call after that returns None again and leaves the iterator as it is; the
\* hierarchical iterator then has an empty stack and a zero pending word.
C32_IteratorsFinite ==
    /\ kind = "NotSafe" => ~NotSafe_iter_new(pool).fault
    /\ Finite(IterType, IterOver,
              RunOut(IterType, IterOver,
                     IterNext(IterType, IterOver, IterNew(IterType, IterOver)), 1))
    /\ kind \in FlagKinds => ~Pool_iter(kind, pool).fault

\* iter() has been drained on a NotSafe pool with live items in two blocks.
C32_Witness ==
    /\ Returned("iter")
    /\ kind = "NotSafe"
    /\ {0, 2} \subseteq LiveIds
    /\ RunOut(IterType, IterOver,
              IterNext(IterType, IterOver, IterNew(IterType, IterOver)), 1).calls
          = Cardinality(LiveIds) + 1
\* The ids below the capacity whose flag in vector f is true.
TrueFlags(U, f, n) ==
    {i \in 0..(n - 1) : FlagVec_get_ok(U, f, i) /\ FlagVec_get_flag(U, f, i)}

\* C33: in every reachable state of a FlagsBasedPool, alloc, free and items
\* have the same length, items[i] holds an item iff alloc[i] is true, and
\* num_items is the number of true alloc flags; so num_items >=
\* alloc.num_flags() holds exactly when no flag of free below the capacity
\* is true.
C33_FlagsPoolStructure ==
    kind \in FlagKinds =>
        /\ FlagVec_num_flags(FlagVecOf(kind), pool.alloc) = Len(pool.items)
        /\ FlagVec_num_flags(FlagVecOf(kind), pool.free) = Len(pool.items)
        /\ \A i \in 0..(Len(pool.items) - 1) :
              /\ FlagVec_get_ok(FlagVecOf(kind), pool.alloc, i)
              /\ FlagVec_get_ok(FlagVecOf(kind), pool.free, i)
              /\ (pool.items[i + 1] # NoItem)
                    = FlagVec_get_flag(FlagVecOf(kind), pool.alloc, i)
        /\ pool.num_items =
              Cardinality(TrueFlags(FlagVecOf(kind), pool.alloc, Len(pool.items)))
        /\ (pool.num_items >= FlagVec_num_flags(FlagVecOf(kind), pool.alloc))
              = (TrueFlags(FlagVecOf(kind), pool.free, Len(pool.items)) = {})

\* A deallocate has left a BitFlags pool of four slots with ids 1 and 3
\* live and free slots below each of them.
C33_Witness ==
    /\ kind = "BitFlags"
    /\ Returned("deallocate")
    /\ Len(pool.items) = 4
    /\ LiveIds = {1, 3}
    /\ TrueFlags("BitVec", pool.free, 4) = {0, 2}
\* The slot indices of pool p of kind k that hold no item.
Unallocated(k, p) == {i \in 0..(Capacity(k, p) - 1) : i \notin LiveIds}

\* C34: allocate of a FlagsBasedPool (with each flag vector) and of Simple
\* returns the smallest id that was unallocated before the call, or the old
\* capacity when every slot was allocated and the pool grew.
C34_AllocateSmallestFreeId ==
    [][(kind \in FlagKinds \cup {"Simple"} /\ last'.op = "allocate") =>
          /\ ~last'.fault
          /\ last'.id = IF Unallocated(kind, pool) = {}
                         THEN Capacity(kind, pool)
                         ELSE Min(Unallocated(kind, pool))
          /\ (Unallocated(kind, pool) = {})
                = (Capacity(kind, pool') > Capacity(kind, pool))]_vars

\* allocate has returned id 1 of a BoolFlags pool of four slots in which
\* id 3 stays free: the lower of two free slots was taken.
C34_Witness ==
    /\ kind = "BoolFlags"
    /\ Returned("allocate")
    /\ last.id = 1
    /\ Capacity(kind, pool) = 4
    /\ LiveIds = {0, 1, 2}
\* The BoolFlags pool holding the items of flags pool p in the same slots.
AsBoolFlags(p) ==
    [alloc |-> [flags |-> [i \in 1..Len(p.items) |-> p.items[i] # NoItem]],
     free |-> [flags |-> [i \in 1..Len(p.items) |-> p.items[i] = NoItem]],
     items |-> p.items,
     num_items |-> p.num_items]

\* What a caller observes of flags pool p over vector U: len(), the
\* capacity and the iteration sequence.
Observed(U, p) ==
    <<FlagsBasedPool_len(p), Len(p.items), FlagsBasedPool_iter(U, p)>>

\* Results r (over vector U) and b (over BoolVec) of one call agree: both
\* fault, or both return with the same value v(_) and leave pools that hold
\* the same items and are observed alike.
SameOutcome(U, r, b, v(_)) ==
    /\ r.fault = b.fault
    /\ ~r.fault =>
          /\ v(r) = v(b)
          /\ AsBoolFlags(r.pool) = b.pool
          /\ Observed(U, r.pool) = Observed("BoolVec", b.pool)

ReturnedId(r) == r.id

NoReturn(r) == None

\* C35: a flags pool over BitVec or HierarchicalBitVec and the BoolFlags
\* pool driven by the same calls are observed alike: the constructors give
\* corresponding pools, and in every reachable state each allocate,
\* deallocate, get and get_mut returns the same id or item (or faults
\* alike) and leaves corresponding pools with the same len(), capacity and
\* iteration sequence.
C35_FlagVectorsObservedAlike ==
    kind \in FlagKinds =>
        /\ last.op = "new" =>
              AsBoolFlags(pool) = FlagsBasedPool_new("BoolVec")
        /\ last.op = "with_capacity" =>
              AsBoolFlags(pool) = FlagsBasedPool_with_capacity("BoolVec", last.id)
        /\ Running =>
              /\ Observed(FlagVecOf(kind), pool) = Observed("BoolVec", AsBoolFlags(pool))
              /\ \A item \in Items :
                    SameOutcome(FlagVecOf(kind),
                                FlagsBasedPool_allocate(FlagVecOf(kind), pool, item),
                                FlagsBasedPool_allocate("BoolVec", AsBoolFlags(pool), item),
                                ReturnedId)
              /\ \A id \in Ids :
                    /\ SameOutcome(FlagVecOf(kind),
                                   FlagsBasedPool_deallocate(FlagVecOf(kind), pool, id),
                                   FlagsBasedPool_deallocate("BoolVec", AsBoolFlags(pool), id),
                                   NoReturn)
                    /\ FlagsBasedPool_get(pool, id)
                          = FlagsBasedPool_get(AsBoolFlags(pool), id)
                    /\ \A value \in Items :
                          SameOutcome(FlagVecOf(kind),
                                      FlagsBasedPool_get_mut(pool, id, value),
                                      FlagsBasedPool_get_mut(AsBoolFlags(pool), id, value),
                                      NoReturn)

\* An allocate has refilled id 1 of a HierarchicalFlags pool of four slots
\* after a deallocate, next to live ids 0 and 3, and the iteration visits
\* ids 0, 1, 3 in that order.
C35_Witness ==
    /\ kind = "HierarchicalFlags"
    /\ Returned("allocate")
    /\ last.id = 1
    /\ Len(pool.items) = 4
    /\ LiveIds = {0, 1, 3}
    /\ FlagsBasedPool_iter("HierarchicalBitVec", pool).ids = <<0, 1, 3>>
\* The slots met by following next_free_slot from slot index at, for at most
\* fuel links; the walk stops on None, on an index outside the storage and
\* after an Item slot.
RECURSIVE FreeChain(_, _, _)
FreeChain(slots, at, fuel) ==
    IF at = None \/ fuel = 0 THEN <<>>
    ELSE IF at >= Len(slots) \/ slots[at + 1].tag = "Item" THEN <<at>>
    ELSE <<at>> \o FreeChain(slots, slots[at + 1].next_free_slot, fuel - 1)

\* The walk from at reaches None within fuel links, over Free slots only.
RECURSIVE ChainEnds(_, _, _)
ChainEnds(slots, at, fuel) ==
    IF at = None THEN TRUE
    ELSE IF fuel = 0 \/ at >= Len(slots) \/ slots[at + 1].tag = "Item" THEN FALSE
    ELSE ChainEnds(slots, slots[at + 1].next_free_slot, fuel - 1)

FreeSlots(slots) == {i \in 0..(Len(slots) - 1) : slots[i + 1].tag = "Free"}

\* C36: in every reachable state of a FreeList, the next_free_slot links
\* from the head visit every Free slot exactly once and no Item slot and end
\* at None; the chain length plus num_items is slots.len(), and the head is
\* None iff every slot holds an item.
C36_FreeChain ==
    kind = "FreeList" =>
        /\ ChainEnds(pool.slots, pool.next_free_slot, Len(pool.slots))
        /\ NoRepeat(FreeChain(pool.slots, pool.next_free_slot, Len(pool.slots) + 1))
        /\ {FreeChain(pool.slots, pool.next_free_slot, Len(pool.slots) + 1)[i] :
               i \in 1..Len(FreeChain(pool.slots, pool.next_free_slot, Len(pool.slots) + 1))}
             = FreeSlots(pool.slots)
        /\ Len(FreeChain(pool.slots, pool.next_free_slot, Len(pool.slots) + 1))
             + pool.num_items = Len(pool.slots)
        /\ (pool.next_free_slot = None) = (FreeSlots(pool.slots) = {})

\* Two deallocates have left a FreeList of four slots whose chain runs from
\* the head at slot 1 to slot 3 and ends there, between Item slots 0 and 2.
C36_Witness ==
    /\ kind = "FreeList"
    /\ Returned("deallocate")
    /\ Len(pool.slots) = 4
    /\ pool.next_free_slot = 1
    /\ FreeChain(pool.slots, pool.next_free_slot, 5) = <<1, 3>>
    /\ pool.num_items = 2
\* The set of the elements of sequence s.
Elements(s) == {s[i] : i \in 1..Len(s)}

\* The indices of the blocks of Stacks pool p.
BlocksOf(p) == 0..(Len(p.flags) - 1)

\* C37: in every reachable state of a Stacks pool, open_blocks holds exactly
\* the indices of the blocks that are not full, each once; alloc_blocks holds
\* exactly the indices of the blocks with an allocated item, each once; a
\* flag bit is set iff its slot holds an item; and the block on top of
\* open_blocks, as allocate reads it after expand_if_needed, is not full.
C37_StacksBlockIndex ==
    kind = "Stacks" =>
        /\ Len(pool.items) = Len(pool.flags) * FLAGS_PER_BLOCK
        /\ NoRepeat(pool.open_blocks)
        /\ Elements(pool.open_blocks)
             = {b \in BlocksOf(pool) : pool.flags[b + 1] # FULL_BLOCK}
        /\ NoRepeat(pool.alloc_blocks)
        /\ Elements(pool.alloc_blocks)
             = {b \in BlocksOf(pool) : pool.flags[b + 1] # EMPTY_BLOCK}
        /\ \A id \in 0..(Len(pool.items) - 1) :
              TestBit(pool.flags[(id \div FLAGS_PER_BLOCK) + 1], id % FLAGS_PER_BLOCK)
                = (pool.items[id + 1] # NoItem)
        /\ \E x \in {Stacks_expand_if_needed(pool)} :
              /\ ~x.fault
              /\ Len(x.pool.open_blocks) > 0
              /\ x.pool.open_blocks[Len(x.pool.open_blocks)] \in BlocksOf(x.pool)
              /\ x.pool.flags[x.pool.open_blocks[Len(x.pool.open_blocks)] + 1] # FULL_BLOCK

\* A deallocate has emptied block 0 of a Stacks pool of two blocks while
\* block 1 holds one item: both blocks are open, block 0 on top, and only
\* block 1 is in alloc_blocks.
C37_Witness ==
    /\ kind = "Stacks"
    /\ Returned("deallocate")
    /\ Len(pool.flags) = 2
    /\ pool.flags[1] = EMPTY_BLOCK
    /\ pool.alloc_blocks = <<1>>
    /\ pool.open_blocks = <<1, 0>>
    /\ pool.num_items = 1
\* The addresses met by following next from address at, for at most fuel
\* links; the walk stops on null and after an address that is not a live
\* node.
RECURSIVE ListFrom(_, _, _)
ListFrom(heap, at, fuel) ==
    IF at = NULL \/ fuel = 0 THEN <<>>
    ELSE IF ~Deref_ok(heap, at) THEN <<at>>
    ELSE <<at>> \o ListFrom(heap, heap[at].next, fuel - 1)

\* The walk from at reaches null within fuel links, over live nodes only.
RECURSIVE ListEnds(_, _, _)
ListEnds(heap, at, fuel) ==
    IF at = NULL THEN TRUE
    ELSE IF fuel = 0 \/ ~Deref_ok(heap, at) THEN FALSE
    ELSE ListEnds(heap, heap[at].next, fuel - 1)

\* The list of NotSafe pool p from its head.
NodeList(p) == ListFrom(p.heap, p.head, NumAddrs + 1)

\* The blocks of NotSafe pool p with at least one allocated item.
NonEmptyBlocks(p) == {b \in BlocksOf(p) : p.flags[b + 1] # EMPTY_BLOCK}

\* C38: in every reachable state of a NotSafe pool, the list from head ends
\* at null and holds exactly one node per block with an allocated item and
\* none for an empty block; nodes[b] is non-null iff block b is non-empty
\* and is then the node of block b in the list; the head has a null prev and
\* each later node's prev is the node before it; and every node reached
\* from head, nodes or a neighbour's link is live, the live nodes being
\* those of the list.
C38_NotSafeList ==
    kind = "NotSafe" =>
        /\ ListEnds(pool.heap, pool.head, NumAddrs)
        /\ NoRepeat(NodeList(pool))
        /\ \A i \in 1..Len(NodeList(pool)) : Deref_ok(pool.heap, NodeList(pool)[i])
        /\ {pool.heap[a].block : a \in Elements(NodeList(pool))} = NonEmptyBlocks(pool)
        /\ Len(NodeList(pool)) = Cardinality(NonEmptyBlocks(pool))
        /\ Len(pool.nodes) = Len(pool.flags)
        /\ \A b \in BlocksOf(pool) :
              /\ (pool.nodes[b + 1] # NULL) = (b \in NonEmptyBlocks(pool))
              /\ pool.nodes[b + 1] # NULL =>
                    /\ pool.nodes[b + 1] \in Elements(NodeList(pool))
                    /\ pool.heap[pool.nodes[b + 1]].block = b
        /\ \A i \in 1..Len(NodeList(pool)) :
              pool.heap[NodeList(pool)[i]].prev
                = IF i = 1 THEN NULL ELSE NodeList(pool)[i - 1]
        /\ {a \in Addrs : pool.heap[a].live} = Elements(NodeList(pool))

\* A deallocate of id 2 has emptied block 1 of a NotSafe pool of two blocks:
\* the node of the full block 0 is the head and the only node of the list,
\* with null prev and next, and nodes[1] is null.
C38_Witness ==
    /\ kind = "NotSafe"
    /\ Returned("deallocate")
    /\ last.id = 2
    /\ Len(pool.flags) = 2
    /\ pool.flags = <<FULL_BLOCK, EMPTY_BLOCK>>
    /\ pool.nodes[2] = NULL
    /\ pool.head = pool.nodes[1]
    /\ Len(NodeList(pool)) = 1
    /\ pool.heap[pool.head].prev = NULL
\* The calls that fault on a caller's argument: an id that is not allocated
\* (pools) or an index outside the vector (flag vectors).
CallerFaults ==
    {"get", "get_mut", "deallocate", "get_bit", "set_bit",
     "set_bit_and_all_bits_after_it_to_true", "get_block"}

\* C39: while callers pass only allocated ids, no assertion, unwrap or
\* unreachable of a pool's allocate (expand_if_needed included), deallocate
\* or iterator fails, and allocate always returns; the same holds of
\* add_bits, get_block (of an existing block), find_a_true_bit and true_bits
\* of a BitVec and of a HierarchicalBitVec, inside a pool and on their own.
C39_AssertionsHold ==
    /\ last.fault => last.op \in CallerFaults
    /\ (last.fault /\ kind \in Kinds) => last.id \notin LiveIds
    /\ (last.fault /\ kind = "HierarchicalBitVec") => last.id >= Hier_num_bits(pool)
    /\ (last.fault /\ kind = "BitVec") =>
          last.id >= (IF last.op = "get_block" THEN Len(pool.flags) ELSE pool.num_bits)
    /\ (Running /\ kind \in FlagKinds) =>
          /\ FlagsBasedPool_expand_ok(FlagVecOf(kind), pool)
          /\ FlagVec_find_ok(FlagVecOf(kind),
                             FlagsBasedPool_expand_if_needed(FlagVecOf(kind), pool).free)
    /\ (Running /\ kind \in Kinds) =>
          /\ \A item \in Items, node \in NodeChoices(kind, pool) :
                /\ ~Pool_allocate(kind, pool, item, node).fault
                /\ Pool_allocate(kind, pool, item, node).id # None
          /\ \A id \in LiveIds :
                /\ ~Pool_deallocate(kind, pool, id).fault
                /\ ~Pool_get(kind, pool, id).fault
                /\ \A value \in Items : ~Pool_get_mut(kind, pool, id, value).fault
          /\ ~Pool_iter(kind, pool).fault
    /\ (Running /\ kind = "HierarchicalBitVec") =>
          /\ \A num_bits \in 0..(MaxBits - Hier_num_bits(pool)), value \in BOOLEAN :
                FlagVec_add_ok(kind, pool, num_bits, value)
          /\ FlagVec_find_ok(kind, pool)
          /\ ~Hier_true_bits(pool).fault
    /\ (Running /\ kind = "BitVec") =>
          /\ BitVec_add_bits_ok(pool)
          /\ \A idx_of_block \in 0..(Len(pool.flags) - 1) :
                BitVec_block_ok(pool, idx_of_block)

\* An allocate on a full HierarchicalFlags pool of two slots has grown it to
\* four slots, adding a level to both flag vectors, and returned id 2.
C39_Witness ==
    /\ kind = "HierarchicalFlags"
    /\ Returned("allocate")
    /\ last.id = 2
    /\ Len(pool.items) = 4
    /\ pool.num_items = 3
    /\ Len(pool.alloc.levels) = 2
    /\ Len(pool.free.levels) = 2
====
